---- MODULE Spec2Model ----
(***************************************************************************)
(* Cash-flow forecasting application: transaction generator                *)
(* (lib/generate), forecast simulator (lib/forecasting) and the handlers   *)
(* of the Monthly Setup, Month Detail and Settings pages that feed them.   *)
(*                                                                         *)
(* Conventions                                                             *)
(*   - money is an integer number of half-cents, so that roundToCents      *)
(*     (Math.round(v * 100) / 100) is a real rounding: 7 half-cents        *)
(*     (3.5 cents) rounds to 8, -3 (-1.5 cents) rounds to -2;              *)
(*   - an ISO date string 'YYYY-MM-DD' is the integer YYYYMMDD and a month *)
(*     id 'YYYY-MM' the integer YYYYMM: string comparison of ISO dates is  *)
(*     integer comparison of these;                                        *)
(*   - a JavaScript Date (local midnight) is a day number counted from     *)
(*     January 1 of BaseYear; new Date(y, m, d) normalises overflowing     *)
(*     day arguments exactly as DateOf does;                               *)
(*   - an absent (undefined) or empty string field is "";                  *)
(*   - crypto.randomUUID() is a fresh value <<n, k>> built from a counter; *)
(*   - a 'kind:part:part' key string is the record of its parts, [kind,    *)
(*     id, date] (ids are UUIDs, dates are digits, none holds a colon).    *)
(***************************************************************************)
EXTENDS Integers, Sequences, FiniteSets, TLC

----------------------------------------------------------------------------
(* Bounds of the model *)

\* generation runs (clicks on Generate Forecast) per behaviour
MaxRuns == 2
\* user edits (split operations, saved manual transactions) per behaviour
MaxEdits == 3

\* the years the day numbering knows
Years == 2023..2025
BaseYear == CHOOSE y \in Years : \A z \in Years : y <= z

----------------------------------------------------------------------------
(* Sequence helpers: Array.prototype.map / filter / flatMap / reduce *)

RECURSIVE FlatMap(_, _)
FlatMap(F(_), s) ==
  IF s = << >> THEN << >> ELSE F(Head(s)) \o FlatMap(F, Tail(s))

MapSeq(F(_), s) == [i \in 1..Len(s) |-> F(s[i])]

RECURSIVE SumSeq(_)
SumSeq(s) == IF s = << >> THEN 0 ELSE Head(s) + SumSeq(Tail(s))

Range(s) == {s[i] : i \in 1..Len(s)}

Abs(x) == IF x < 0 THEN -x ELSE x
Max(a, b) == IF a >= b THEN a ELSE b
Min(a, b) == IF a <= b THEN a ELSE b

----------------------------------------------------------------------------
(* Calendar: the JavaScript Date arithmetic used by lib/generate *)

IsLeap(y) == (y % 4 = 0 /\ y % 100 # 0) \/ y % 400 = 0

\* new Date(year, month, 0).getDate()
DaysInMonth(y, m) ==
  IF m = 2 THEN (IF IsLeap(y) THEN 29 ELSE 28)
  ELSE IF m \in {4, 6, 9, 11} THEN 30 ELSE 31

DaysInYear(y) == IF IsLeap(y) THEN 366 ELSE 365

RECURSIVE YearStart(_)
YearStart(y) == IF y <= BaseYear THEN 0 ELSE YearStart(y - 1) + DaysInYear(y - 1)

RECURSIVE MonthStart(_, _)
MonthStart(y, m) ==
  IF m <= 1 THEN YearStart(y) ELSE MonthStart(y, m - 1) + DaysInMonth(y, m - 1)

\* new Date(y, m - 1, d): a day argument outside the month rolls over
DateOf(y, m, d) == MonthStart(y, m) + d - 1

YearOfDay(n) == CHOOSE y \in Years :
                  YearStart(y) <= n /\ n < YearStart(y) + DaysInYear(y)
MonthOfDay(n) == LET y == YearOfDay(n) IN
                 CHOOSE m \in 1..12 :
                   MonthStart(y, m) <= n /\ n < MonthStart(y, m) + DaysInMonth(y, m)
DayOfDay(n) == n - MonthStart(YearOfDay(n), MonthOfDay(n)) + 1

IsoYear(date) == date \div 10000
IsoMonth(date) == (date \div 100) % 100
IsoDay(date) == date % 100

parseDate(value) == DateOf(IsoYear(value), IsoMonth(value), IsoDay(value))

\* parseDate('') is new Date(0, NaN, undefined), an Invalid Date: getDate() is
\* NaN and every comparison with a Date is false. The empty string is date 0.
IsInvalidDate(value) == value = 0

formatDate(n) == YearOfDay(n) * 10000 + MonthOfDay(n) * 100 + DayOfDay(n)

\* `${monthId}-${day.toString().padStart(2, '0')}`
MonthDay(monthId, day) == monthId * 100 + day

getMonthInfo(monthId) ==
  LET year == monthId \div 100
      month == monthId % 100
      dim == DaysInMonth(year, month)
  IN [year |-> year, month |-> month, daysInMonth |-> dim,
      start |-> DateOf(year, month, 1), end |-> DateOf(year, month, dim)]

RECURSIVE SkipToStart(_, _, _)
SkipToStart(current, start, intervalDays) ==
  IF current < start THEN SkipToStart(current + intervalDays, start, intervalDays)
  ELSE current

RECURSIVE CollectDates(_, _, _, _)
CollectDates(current, start, end, intervalDays) ==
  IF current <= end
  THEN (IF current >= start THEN <<formatDate(current)>> ELSE << >>)
       \o CollectDates(current + intervalDays, start, end, intervalDays)
  ELSE << >>

\* an anchor before the month is replaced by the first day of the month
getDatesByInterval_FromMonthStart(monthId, anchorDate, intervalDays) ==
  LET info == getMonthInfo(monthId)
      first == Max(parseDate(anchorDate), info.start)
  IN CollectDates(first, info.start, info.end, intervalDays)

getDatesByInterval(monthId, anchorDate, intervalDays) ==
  LET info == getMonthInfo(monthId)
      first == SkipToStart(parseDate(anchorDate), info.start, intervalDays)
  IN IF IsInvalidDate(anchorDate) THEN << >>
     ELSE CollectDates(first, info.start, info.end, intervalDays)

\* a day rule is [kind, n]: 'last' is kind "last", 'day:N' kind "day", 'N' kind
\* "num", and a string parseInt cannot read (NaN) kind "nan"
DayRule(kind, n) == [kind |-> kind, n |-> n]

\* the day is not clamped to the month
getMonthlyDate_NoClamp(monthId, dayRule, fallbackDay) ==
  LET dim == getMonthInfo(monthId).daysInMonth
      dayNum == IF dayRule.kind \in {"day", "num"} THEN dayRule.n ELSE fallbackDay
  IN IF dayRule.kind = "last" THEN MonthDay(monthId, dim)
     ELSE MonthDay(monthId, dayNum)

getMonthlyDate(monthId, dayRule, fallbackDay) ==
  LET dim == getMonthInfo(monthId).daysInMonth
      dayNum == IF dayRule.kind \in {"day", "num"} THEN dayRule.n ELSE fallbackDay
      clamped == Min(Max(dayNum, 1), dim)
  IN IF dayRule.kind = "last" THEN MonthDay(monthId, dim)
     ELSE MonthDay(monthId, clamped)

\* semimonthly is the 15th and the 30th
getScheduleDates_Fifteenth30th(monthId, schedule, anchorDate) ==
  IF schedule = "weekly" THEN getDatesByInterval(monthId, anchorDate, 7)
  ELSE IF schedule = "biweekly" THEN getDatesByInterval(monthId, anchorDate, 14)
  ELSE IF schedule = "semimonthly"
       THEN <<MonthDay(monthId, 15), MonthDay(monthId, 30)>>
  ELSE <<getMonthlyDate(monthId, DayRule("num", DayOfDay(parseDate(anchorDate))), 1)>>

getScheduleDates(monthId, schedule, anchorDate) ==
  LET dim == getMonthInfo(monthId).daysInMonth IN
  IF schedule = "weekly" THEN getDatesByInterval(monthId, anchorDate, 7)
  ELSE IF schedule = "biweekly" THEN getDatesByInterval(monthId, anchorDate, 14)
  ELSE IF schedule = "semimonthly"
       THEN <<MonthDay(monthId, 15), MonthDay(monthId, dim)>>
  ELSE IF IsInvalidDate(anchorDate)
       THEN <<getMonthlyDate(monthId, DayRule("nan", 0), 1)>>
  ELSE <<getMonthlyDate(monthId, DayRule("num", DayOfDay(parseDate(anchorDate))), 1)>>

----------------------------------------------------------------------------
(* Transaction generator: lib/generate *)

\* the key of a transaction no rule generated (source_item_id undefined)
NoKey == [kind |-> "", id |-> "", date |-> 0]
Key(kind, id, date) == [kind |-> kind, id |-> id, date |-> date]

\* the id a transaction carries until generateMonthTransactions numbers it
NoId == <<0, 0>>

\* the amount keeps the sign it was entered with
resolveAmount_KeepsSign(type, amount) == amount

resolveAmount(type, amount) ==
  IF type = "income" THEN Abs(amount) ELSE -Abs(amount)

\* Math.round(value * 100) / 100 on half-cents: halves round towards +infinity
roundToCents(value) == ((value + 1) \div 2) * 2

PaycheckTx(entry, account_id, amount, monthSetup, generatedBatchId) ==
  [id |-> NoId,
   date |-> entry.date,
   amount |-> amount,
   account_id |-> account_id,
   transfer_account_id |-> "",
   transaction_type |-> "",
   category_id |-> monthSetup.paycheck_category_id,
   source |-> "generated",
   source_item_id |->
     Key(IF entry.is_bonus THEN "bonus" ELSE "paycheck", account_id, entry.date),
   generated_batch_id |-> generatedBatchId]

\* the remainder without Math.max(.., 0)
remainderAmount_NoFloor(absoluteAmount, fixedTotal) ==
  roundToCents(absoluteAmount - fixedTotal)

remainderAmount(absoluteAmount, fixedTotal) ==
  roundToCents(Max(absoluteAmount - fixedTotal, 0))

buildPaycheckSplitTransactions(entry, splits, monthSetup, generatedBatchId) ==
  LET eligibleSplits == SelectSeq(splits, LAMBDA split : split.account_id # "")
      remainders == SelectSeq(eligibleSplits, LAMBDA split : split.is_remainder)
      fixedSplits ==
        MapSeq(LAMBDA split : [split EXCEPT !.amount = Abs(split.amount)],
               SelectSeq(eligibleSplits,
                         LAMBDA split : ~split.is_remainder /\ split.amount # 0))
      fixedTotal == SumSeq(MapSeq(LAMBDA split : split.amount, fixedSplits))
      absoluteAmount == Abs(entry.amount)
      tx == MapSeq(LAMBDA split :
                     PaycheckTx(entry, split.account_id, split.amount,
                                monthSetup, generatedBatchId),
                   fixedSplits)
      remainder == remainderAmount(absoluteAmount, fixedTotal)
  IN IF monthSetup.paycheck_category_id = "" THEN << >>
     ELSE IF eligibleSplits = << >> THEN << >>
     ELSE IF remainders # << >> /\ remainder # 0
          THEN Append(tx, PaycheckTx(entry, remainders[1].account_id,
                                     remainder, monthSetup, generatedBatchId))
     ELSE tx

buildKey(entry) == <<entry.date, entry.is_bonus>>

\* new Map(entries).get(key): the last entry with the key
LastWithKey(entries, key) ==
  LET hits == SelectSeq(entries, LAMBDA e : buildKey(e) = key)
  IN hits[Len(hits)]

HasKey(entries, key) == \E i \in 1..Len(entries) : buildKey(entries[i]) = key

\* { ...entry, ...override }: every field of the override replaces the entry's
SpreadEntry(entry, override) ==
  [entry EXCEPT !.id = override.id, !.date = override.date,
                !.amount = override.amount, !.is_bonus = override.is_bonus]

paycheckEntries(monthId, monthSetup) ==
  LET paycheckDates == getScheduleDates(monthId, monthSetup.paycheck_schedule,
                                        monthSetup.paycheck_anchor_date)
      estimateEntries ==
        IF Len(monthSetup.paycheck_estimates) > 0
        THEN monthSetup.paycheck_estimates
        ELSE MapSeq(LAMBDA date : [id |-> NoId, date |-> date,
                                   amount |-> monthSetup.paycheck_default_amount,
                                   is_bonus |-> FALSE],
                    paycheckDates)
      overrides == monthSetup.paycheck_overrides
      baseEntries ==
        MapSeq(LAMBDA entry :
                 IF HasKey(overrides, buildKey(entry))
                 THEN SpreadEntry(entry, LastWithKey(overrides, buildKey(entry)))
                 ELSE entry,
               estimateEntries)
      extraOverrides ==
        SelectSeq(overrides, LAMBDA entry : ~HasKey(estimateEntries, buildKey(entry)))
  IN baseEntries \o extraOverrides

paycheckTx(monthId, monthSetup, generatedBatchId) ==
  FlatMap(LAMBDA entry :
            buildPaycheckSplitTransactions(entry, monthSetup.paycheck_deposit_splits,
                                           monthSetup, generatedBatchId),
          SelectSeq(paycheckEntries(monthId, monthSetup),
                    LAMBDA entry : entry.amount # 0))

\* new Map(variable_overrides).get(item_id), else the item's default amount
ItemAmount(monthSetup, item) ==
  LET hits == SelectSeq(monthSetup.variable_overrides,
                        LAMBDA o : o.item_id = item.id)
  IN IF hits # << >> THEN hits[Len(hits)].amount ELSE item.default_amount

ItemDates(monthId, item) ==
  LET anchor == IF item.anchor_date # 0 THEN item.anchor_date
                ELSE MonthDay(monthId, 1)
  IN IF item.cadence = "weekly" THEN getDatesByInterval(monthId, anchor, 7)
     ELSE IF item.cadence = "biweekly" THEN getDatesByInterval(monthId, anchor, 14)
     ELSE IF item.cadence = "semimonthly"
          THEN <<MonthDay(monthId, 15),
                 MonthDay(monthId, getMonthInfo(monthId).daysInMonth)>>
     ELSE <<getMonthlyDate(monthId, item.day_rule, DayOfDay(parseDate(anchor)))>>

recurringTx(monthId, monthSetup, recurringItems, generatedBatchId) ==
  FlatMap(LAMBDA item :
            MapSeq(LAMBDA date :
                     [id |-> NoId,
                      date |-> date,
                      amount |-> resolveAmount(item.type, ItemAmount(monthSetup, item)),
                      account_id |-> item.account_id,
                      transfer_account_id |-> item.transfer_account_id,
                      transaction_type |-> item.type,
                      category_id |-> item.category_id,
                      source |-> "generated",
                      source_item_id |-> Key("recurring", item.id, date),
                      generated_batch_id |-> generatedBatchId],
                   SelectSeq(ItemDates(monthId, item),
                             LAMBDA date : item.category_id # "" /\ item.account_id # "")),
          SelectSeq(recurringItems, LAMBDA item : item.enabled))

oneOffTx(monthSetup, generatedBatchId) ==
  MapSeq(LAMBDA adj :
           [id |-> NoId,
            date |-> adj.date,
            amount |-> resolveAmount(adj.type, adj.amount),
            account_id |-> adj.account_id,
            transfer_account_id |-> adj.transfer_account_id,
            transaction_type |-> adj.type,
            category_id |-> adj.category_id,
            source |-> "generated",
            source_item_id |-> Key("oneoff", adj.id, 0),
            generated_batch_id |-> generatedBatchId],
         SelectSeq(monthSetup.one_offs,
                   LAMBDA adj : adj.account_id # "" /\ adj.category_id # ""))

\* every generated transaction gets its own crypto.randomUUID()
WithIds(txs, generatedBatchId) ==
  [i \in 1..Len(txs) |-> [txs[i] EXCEPT !.id = <<generatedBatchId, i>>]]

buildGeneratedTransactions(monthId, monthSetup, recurringItems, generatedBatchId) ==
  WithIds(paycheckTx(monthId, monthSetup, generatedBatchId)
            \o recurringTx(monthId, monthSetup, recurringItems, generatedBatchId)
            \o oneOffTx(monthSetup, generatedBatchId),
          generatedBatchId)

\* regenerate forgets to drop the previously generated transactions
nextTransactions_KeepsGenerated(existing, generated, genMode) ==
  IF genMode = "reset" THEN generated
  ELSE IF genMode = "regenerate" THEN existing \o generated
  ELSE LET existingIds == {tx.source_item_id : tx \in Range(existing)} \ {NoKey}
       IN existing \o SelectSeq(generated,
                                LAMBDA tx : tx.source_item_id \notin existingIds)

\* missing appends the whole generated set
nextTransactions_NoDedupe(existing, generated, genMode) ==
  IF genMode = "reset" THEN generated
  ELSE IF genMode = "regenerate"
       THEN SelectSeq(existing, LAMBDA tx : tx.source # "generated") \o generated
  ELSE existing \o generated

\* regenerate replaces the whole list, as reset does
nextTransactions_RegenerateResets(existing, generated, genMode) ==
  IF genMode \in {"reset", "regenerate"} THEN generated
  ELSE LET existingIds == {tx.source_item_id : tx \in Range(existing)} \ {NoKey}
       IN existing \o SelectSeq(generated,
                                LAMBDA tx : tx.source_item_id \notin existingIds)

\* regenerate keeps the generated transactions instead of the others
nextTransactions_FilterInverted(existing, generated, genMode) ==
  IF genMode = "reset" THEN generated
  ELSE IF genMode = "regenerate"
       THEN SelectSeq(existing, LAMBDA tx : tx.source = "generated") \o generated
  ELSE LET existingIds == {tx.source_item_id : tx \in Range(existing)} \ {NoKey}
       IN existing \o SelectSeq(generated,
                                LAMBDA tx : tx.source_item_id \notin existingIds)

\* missing compares the transaction ids, which are fresh in every run
nextTransactions_DedupeById(existing, generated, genMode) ==
  IF genMode = "reset" THEN generated
  ELSE IF genMode = "regenerate"
       THEN SelectSeq(existing, LAMBDA tx : tx.source # "generated") \o generated
  ELSE LET existingIds == {tx.id : tx \in Range(existing)}
       IN existing \o SelectSeq(generated, LAMBDA tx : tx.id \notin existingIds)

nextTransactions(existing, generated, genMode) ==
  IF genMode = "reset" THEN generated
  ELSE IF genMode = "regenerate"
       THEN SelectSeq(existing, LAMBDA tx : tx.source # "generated") \o generated
  ELSE LET existingIds == {tx.source_item_id : tx \in Range(existing)} \ {NoKey}
           missing == SelectSeq(generated,
                                LAMBDA tx : tx.source_item_id \notin existingIds)
       IN existing \o missing

\* (generation_version || 0 + 1): the sum binds tighter than ||
nextGenerationVersion_Precedence(version) == IF version # 0 THEN version ELSE 1

\* (monthSetup.generation_version || 0) + 1
nextGenerationVersion(version) == version + 1

bumpMonthSetup(monthSetup, now) ==
  [monthSetup EXCEPT !.last_generated_at = now,
                     !.generation_version = nextGenerationVersion(@)]

----------------------------------------------------------------------------
(* Forecast simulator: lib/forecasting *)

\* [...transactions].sort((a, b) => a.date.localeCompare(b.date)): stable
RECURSIVE InsertByDate(_, _)
InsertByDate(tx, sorted) ==
  IF sorted = << >> THEN <<tx>>
  ELSE IF Head(sorted).date <= tx.date
       THEN <<Head(sorted)>> \o InsertByDate(tx, Tail(sorted))
  ELSE <<tx>> \o sorted

RECURSIVE SortByDate(_)
SortByDate(txs) ==
  IF txs = << >> THEN << >>
  ELSE InsertByDate(txs[Len(txs)], SortByDate(SubSeq(txs, 1, Len(txs) - 1)))

AccountIds(accs) == {accs[i].id : i \in 1..Len(accs)}

\* starting_balances.find(sb => sb.account_id === acc.id), 0 when there is none
startingBalance(starting_balances, id) ==
  LET hits == SelectSeq(starting_balances, LAMBDA sb : sb.account_id = id)
  IN IF hits # << >> THEN hits[1].amount ELSE 0

\* every account starts at 0
initialBalances_Zero(snap) == [id \in AccountIds(snap.accounts) |-> 0]

initialBalances(snap) ==
  [id \in AccountIds(snap.accounts) |-> startingBalance(snap.starting_balances, id)]

\* the transfer branch applies the signed amount
applyTransaction_SignedTransfer(balances, tx) ==
  IF (tx.transaction_type = "transfer" \/ tx.transfer_account_id # "")
     /\ tx.transfer_account_id # ""
  THEN LET fromId == tx.account_id
           toId == tx.transfer_account_id
           afterFrom == IF fromId \in DOMAIN balances
                        THEN [balances EXCEPT ![fromId] = @ - tx.amount]
                        ELSE balances
       IN IF toId \in DOMAIN afterFrom
          THEN [afterFrom EXCEPT ![toId] = @ + tx.amount]
          ELSE afterFrom
  ELSE IF tx.account_id \in DOMAIN balances
       THEN [balances EXCEPT ![tx.account_id] = @ + tx.amount]
  ELSE balances

\* the body of dayTransactions.forEach
applyTransaction(balances, tx) ==
  IF (tx.transaction_type = "transfer" \/ tx.transfer_account_id # "")
     /\ tx.transfer_account_id # ""
  THEN LET fromId == tx.account_id
           toId == tx.transfer_account_id
           amt == Abs(tx.amount)
           afterFrom == IF fromId \in DOMAIN balances
                        THEN [balances EXCEPT ![fromId] = @ - amt]
                        ELSE balances
       IN IF toId \in DOMAIN afterFrom
          THEN [afterFrom EXCEPT ![toId] = @ + amt]
          ELSE afterFrom
  ELSE IF tx.account_id \in DOMAIN balances
       THEN [balances EXCEPT ![tx.account_id] = @ + tx.amount]
  ELSE balances

RECURSIVE applyAll(_, _)
applyAll(balances, txs) ==
  IF txs = << >> THEN balances
  ELSE applyAll(applyTransaction(balances, Head(txs)), Tail(txs))

cashAccountsTotal(accs, balances) ==
  SumSeq(MapSeq(LAMBDA acc : balances[acc.id],
                SelectSeq(accs, LAMBDA acc : acc.included_in_cash_forecast
                                             /\ acc.type # "investment")))

\* new Date(year, month - 1, 0).getDate(): the length of the month before
forecastDays_PreviousMonth(yearMonth) ==
  LET year == yearMonth \div 100
      month == yearMonth % 100
  IN IF month = 1 THEN DaysInMonth(year - 1, 12) ELSE DaysInMonth(year, month - 1)

\* new Date(parseInt(year), parseInt(month), 0).getDate()
forecastDays(yearMonth) == DaysInMonth(yearMonth \div 100, yearMonth % 100)

RECURSIVE forecastLoop(_, _, _, _, _)
forecastLoop(snap, sortedTx, day, currentBalances, points) ==
  IF day <= forecastDays(snap.id)
  THEN LET dateStr == MonthDay(snap.id, day)
           dayTransactions == SelectSeq(sortedTx, LAMBDA tx : tx.date = dateStr)
           balances == applyAll(currentBalances, dayTransactions)
           point == [date |-> dateStr, balances |-> balances,
                     total_cash |-> cashAccountsTotal(snap.accounts, balances)]
       IN forecastLoop(snap, sortedTx, day + 1, balances, Append(points, point))
  ELSE points

calculateForecast(snap) ==
  forecastLoop(snap, SortByDate(snap.transactions), 1, initialBalances(snap), << >>)

\* App: normalizeAccounts (a legacy 'credit_card' account becomes a loan that is
\* left out of the cash forecast)
normalizeAccounts(accs) ==
  MapSeq(LAMBDA acc :
           IF acc.type = "credit_card"
           THEN [acc EXCEPT !.type = "loan", !.included_in_cash_forecast = FALSE]
           ELSE IF acc.type = "investment"
                THEN [acc EXCEPT !.included_in_cash_forecast = FALSE]
           ELSE acc,
         accs)

----------------------------------------------------------------------------
(* Federal withholding: lib/payroll/federal/withholding

   Payroll amounts are integers (dollars); a rate is an integer number of
   hundredths, so that amount * rate is Times(amount, rate); a quotient is
   Quotient, which is exact wherever the explored amounts are multiples of
   the divisor. *)

\* a field that is null or undefined where the code applies ??
Null == -1
\* the upper bound of the top bracket
Infinity == 2147483647
\* the hundredths a rate is counted in
RateScale == 100

\* value ?? fallback
Coalesce(value, fallback) == IF value = Null THEN fallback ELSE value

Times(amount, rate) == (amount * rate) \div RateScale
Quotient(a, b) == a \div b

Bracket(lowerBound, upperBound, rate) ==
  [lowerBound |-> lowerBound, upperBound |-> upperBound, rate |-> rate]

taxableAtBracket(taxableIncome, bracket) ==
  LET upper == Coalesce(bracket.upperBound, Infinity)
  IN Max(0, Min(taxableIncome, upper) - bracket.lowerBound)

\* one rate, that of the bracket the income falls in, applied to all of it
calculateAnnualTax_SingleRate(taxableIncome, brackets) ==
  IF taxableIncome <= 0 THEN 0
  ELSE SumSeq(MapSeq(LAMBDA bracket :
                       IF /\ bracket.lowerBound < taxableIncome
                          /\ taxableIncome <= Coalesce(bracket.upperBound, Infinity)
                       THEN Times(taxableIncome, bracket.rate)
                       ELSE 0,
                     brackets))

calculateAnnualTax(taxableIncome, brackets) ==
  IF taxableIncome <= 0 THEN 0
  ELSE SumSeq(MapSeq(LAMBDA bracket :
                       IF taxableAtBracket(taxableIncome, bracket) <= 0 THEN 0
                       ELSE Times(taxableAtBracket(taxableIncome, bracket),
                                  bracket.rate),
                     brackets))

\* dependentCreditOverride || (dependentsCount * dependentCredit)
credit_OverrideUnlessZero(dependentCreditOverride, dependentsCount, dependentCredit) ==
  IF dependentCreditOverride = Null \/ dependentCreditOverride = 0
  THEN dependentsCount * dependentCredit
  ELSE dependentCreditOverride

\* dependentCreditOverride ?? (dependentsCount * dependentCredit)
credit(dependentCreditOverride, dependentsCount, dependentCredit) ==
  Coalesce(dependentCreditOverride, dependentsCount * dependentCredit)

calculateFederalWithholding(a) ==
  LET annualizedWages == a.taxableWagesPerPaycheck * a.payPeriodsPerYear
      adjustedIncome == annualizedWages + a.otherIncomeAnnual
      totalDeductions == a.standardDeduction + a.deductionsAnnual
      taxableIncome == Max(0, adjustedIncome - totalDeductions)
      annualTax == calculateAnnualTax(taxableIncome, a.brackets)
      annualAfterCredits ==
        Max(0, annualTax - credit(a.dependentCreditOverride, a.dependentsCount,
                                  a.dependentCredit))
      perPaycheck == Quotient(annualAfterCredits, a.payPeriodsPerYear)
  IN Max(0, perPaycheck + a.extraWithholdingPerPaycheck)

----------------------------------------------------------------------------
(* Payroll engine: lib/payroll/engine. Its date helpers (parseDate,
   formatDate, getMonthInfo, getDatesByInterval, getMonthlyDate) are copies of
   those of lib/generate, and the operators above stand for both. *)

FilingStatuses == {"single", "married_joint", "head_of_household"}

\* an object that is undefined: reading a property of it throws a TypeError
UndefinedObject == [undefined |-> TRUE]
IsUndefined(object) == "undefined" \in DOMAIN object

\* the day part 'NaN' of a date string: it sorts after every two-digit day
NaNDay == 99

\* the engine's own getMonthlyDate(monthId, day): Math.min(Math.max(NaN, 1),
\* daysInMonth) is NaN, and the date is `${monthId}-NaN`
engineGetMonthlyDate(monthId, day) ==
  LET dim == getMonthInfo(monthId).daysInMonth
  IN IF day = NaNDay THEN MonthDay(monthId, NaNDay)
     ELSE MonthDay(monthId, Min(Max(day, 1), dim))

getPayDatesForMonth(monthId, schedule, anchorDate) ==
  LET dim == getMonthInfo(monthId).daysInMonth IN
  IF schedule = "weekly" THEN getDatesByInterval(monthId, anchorDate, 7)
  ELSE IF schedule = "biweekly" THEN getDatesByInterval(monthId, anchorDate, 14)
  ELSE IF schedule = "semimonthly"
       THEN <<MonthDay(monthId, 15), MonthDay(monthId, dim)>>
  ELSE IF IsInvalidDate(anchorDate) THEN <<engineGetMonthlyDate(monthId, NaNDay)>>
  ELSE <<engineGetMonthlyDate(monthId, DayOfDay(parseDate(anchorDate)))>>

getPayPeriodsPerYear(schedule) ==
  IF schedule = "weekly" THEN 52
  ELSE IF schedule = "biweekly" THEN 26
  ELSE IF schedule = "semimonthly" THEN 24
  ELSE 12

\* the threshold is kept per filing status (a plain number is the same for all)
resolveAdditionalMedicareThreshold(threshold, filingStatus) == threshold[filingStatus]

buildYearToDatePayDates(monthId, schedule, anchorDate) ==
  LET year == monthId \div 100
      months == [i \in 1..(monthId % 100) |-> year * 100 + i]
  IN FlatMap(LAMBDA id : getPayDatesForMonth(id, schedule, anchorDate), months)

\* the comparator of buildPayrollEvents returns <= 0 for (a, b)
EventNotAfter(a, b) ==
  IF a.date = b.date THEN (a.is_bonus = b.is_bonus \/ ~a.is_bonus)
  ELSE a.date < b.date

RECURSIVE InsertEvent(_, _)
InsertEvent(event, sorted) ==
  IF sorted = << >> THEN <<event>>
  ELSE IF EventNotAfter(Head(sorted), event)
       THEN <<Head(sorted)>> \o InsertEvent(event, Tail(sorted))
  ELSE <<event>> \o sorted

RECURSIVE SortEvents(_)
SortEvents(events) ==
  IF events = << >> THEN << >>
  ELSE InsertEvent(events[Len(events)],
                   SortEvents(SubSeq(events, 1, Len(events) - 1)))

buildPayrollEvents(monthId, schedule, anchorDate, bonusEvents) ==
  LET payDates == buildYearToDatePayDates(monthId, schedule, anchorDate)
      regularEvents ==
        MapSeq(LAMBDA date : [id |-> Key("regular", "", date), date |-> date,
                              is_bonus |-> FALSE, bonus_method |-> "",
                              gross_override |-> Null],
               payDates)
      bonusEventsInRange ==
        MapSeq(LAMBDA event : [id |-> Key("bonus", event.id, 0), date |-> event.date,
                               is_bonus |-> TRUE, bonus_method |-> event.method,
                               gross_override |-> event.gross_amount],
               SelectSeq(bonusEvents, LAMBDA event : event.date \div 100 <= monthId))
  IN SortEvents(regularEvents \o bonusEventsInRange)

ZeroYtd ==
  [gross |-> 0, taxable_wages |-> 0, k401_contribution |-> 0, ss_wages |-> 0,
   medicare_wages |-> 0, federal_withholding |-> 0, fica_withholding |-> 0,
   net |-> 0]

\* the room left is the whole annual maximum, whatever was contributed
k401Remaining_IgnoresYtd(k401Max, ytd401k) == Max(0, k401Max)

\* calculatePayrollForMonth: remaining
k401Remaining(k401Max, ytd401k) == Max(0, k401Max - ytd401k)

\* the wages above the threshold, counted afresh for every paycheck
medicareAboveThreshold_PerPaycheck(ytdMedicareWages, gross, threshold) ==
  Max(0, gross - threshold)

\* calculatePayrollForMonth: medicareAboveThreshold
medicareAboveThreshold(ytdMedicareWages, gross, threshold) ==
  Max(0, ytdMedicareWages + gross - threshold) - Max(0, ytdMedicareWages - threshold)

\* the body of events.forEach: the result of one pay event, given the
\* year-to-date accumulators before it
payrollEvent(event, ytd, a) ==
  LET payrollSettings == a.payrollSettings
      taxTables == a.taxTables
      payPeriodsPerYear == getPayPeriodsPerYear(a.schedule)
      grossPerPaycheck == Quotient(payrollSettings.salary_annual, payPeriodsPerYear)
      isBonus == event.is_bonus
      gross == IF isBonus THEN Coalesce(event.gross_override, 0) ELSE grossPerPaycheck
      k401Settings == payrollSettings.k401
      k401Max ==
        taxTables.retirement.k401_employee_max
          + (IF k401Settings.catch_up_enabled
             THEN Coalesce(k401Settings.catch_up_amount_override,
                           taxTables.retirement.k401_catch_up_max)
             ELSE 0)
      desired == IF k401Settings.contribution_mode = "percent"
                 THEN Times(gross, k401Settings.contribution_value)
                 ELSE k401Settings.contribution_value
      k401Contribution ==
        IF k401Settings.enabled /\ ~isBonus
        THEN (IF k401Settings.enforce_annual_max
              THEN Min(desired, k401Remaining(k401Max, ytd.k401_contribution))
              ELSE desired)
        ELSE 0
      preTaxBenefits ==
        IF isBonus THEN 0 ELSE payrollSettings.benefits.pre_tax_benefits_per_paycheck
      taxableWages == Max(0, gross - k401Contribution - preTaxBenefits)
      extraWithholding ==
        IF isBonus THEN 0 ELSE payrollSettings.extra_withholding_per_paycheck
      federalWithholding ==
        IF isBonus /\ event.bonus_method = "supplemental_flat"
        THEN Times(taxableWages,
                   Coalesce(taxTables.federal_supplemental_withholding_rate, 0))
        ELSE calculateFederalWithholding(
               [taxableWagesPerPaycheck |-> taxableWages,
                payPeriodsPerYear |-> payPeriodsPerYear,
                standardDeduction |->
                  taxTables.standard_deduction[payrollSettings.filing_status],
                deductionsAnnual |-> payrollSettings.deductions_annual,
                otherIncomeAnnual |-> payrollSettings.other_income_annual,
                brackets |->
                  taxTables.federal_income_tax_brackets[payrollSettings.filing_status],
                dependentCredit |-> taxTables.dependent_credit.per_dependent_credit_amount,
                dependentsCount |-> payrollSettings.dependents_count,
                dependentCreditOverride |-> payrollSettings.dependent_credit_override,
                extraWithholdingPerPaycheck |-> extraWithholding])
      includeFica == payrollSettings.fica.include_fica
      ssWageBase == Coalesce(payrollSettings.fica.ss_wage_base_override,
                             taxTables.fica.ss_wage_base)
      ssRemaining == Max(0, ssWageBase - ytd.ss_wages)
      ssTaxable == Min(gross, ssRemaining)
      ssWithholding == IF includeFica THEN Times(ssTaxable, taxTables.fica.ss_rate) ELSE 0
      medicareWithholding ==
        IF includeFica THEN Times(gross, taxTables.fica.medicare_rate) ELSE 0
      threshold ==
        Coalesce(payrollSettings.fica.additional_medicare_threshold_override,
                 resolveAdditionalMedicareThreshold(
                   taxTables.fica.additional_medicare_threshold,
                   payrollSettings.filing_status))
      additionalMedicareWithholding ==
        IF includeFica
        THEN Times(medicareAboveThreshold(ytd.medicare_wages, gross, threshold),
                   taxTables.fica.additional_medicare_rate)
        ELSE 0
      ficaWithholding ==
        ssWithholding + medicareWithholding + additionalMedicareWithholding
      stateWithholding ==
        Times(taxableWages, payrollSettings.state_withholding_flat_rate)
      postTaxDeductions ==
        IF isBonus THEN 0 ELSE payrollSettings.benefits.post_tax_deductions_per_paycheck
      net == gross - k401Contribution - preTaxBenefits - federalWithholding
               - stateWithholding - ficaWithholding - postTaxDeductions
  IN [id |-> event.id,
      date |-> event.date,
      gross |-> gross,
      k401_contribution |-> k401Contribution,
      pre_tax_benefits |-> preTaxBenefits,
      taxable_wages |-> taxableWages,
      federal_withholding |-> federalWithholding,
      state_withholding |-> stateWithholding,
      ss_withholding |-> ssWithholding,
      medicare_withholding |-> medicareWithholding,
      additional_medicare_withholding |-> additionalMedicareWithholding,
      fica_withholding |-> ficaWithholding,
      post_tax_deductions |-> postTaxDeductions,
      net |-> net,
      is_bonus |-> isBonus,
      bonus_method |-> event.bonus_method,
      ytd |-> [gross |-> ytd.gross + gross,
               taxable_wages |-> ytd.taxable_wages + taxableWages,
               k401_contribution |-> ytd.k401_contribution + k401Contribution,
               ss_wages |-> ytd.ss_wages + gross,
               medicare_wages |-> ytd.medicare_wages + gross,
               federal_withholding |-> ytd.federal_withholding + federalWithholding,
               fica_withholding |-> ytd.fica_withholding + ficaWithholding,
               net |-> ytd.net + net]]

\* events.forEach: the result object of every event, in order
RECURSIVE processEvents(_, _, _)
processEvents(events, ytd, a) ==
  IF events = << >> THEN << >>
  ELSE LET result == payrollEvent(Head(events), ytd, a)
       IN <<result>> \o processEvents(Tail(events), result.ytd, a)

\* the call throws when the first event reads taxTables.retirement of a table
\* without one; otherwise it returns the results dated in monthId (processed
\* holds the result of every event of the loop, returned or not)
calculatePayrollForMonth(a) ==
  LET events == buildPayrollEvents(a.monthId, a.schedule, a.anchorDate,
                                   a.payrollSettings.bonus_events)
  IN IF events # << >> /\ IsUndefined(a.taxTables.retirement)
     THEN [outcome |-> "TypeError", processed |-> << >>, paychecks |-> << >>]
     ELSE LET processed == processEvents(events, ZeroYtd, a)
          IN [outcome |-> "returned",
              processed |-> processed,
              paychecks |-> SelectSeq(processed,
                                      LAMBDA r : r.date \div 100 = a.monthId)]

----------------------------------------------------------------------------
(* State *)

VARIABLES
  monthId,               \* currentSnapshot.id
  accounts,              \* settings.accounts = currentSnapshot.accounts
  recurring_items,       \* settings.recurring_items
  monthSetup,            \* currentSnapshot.month_setup
  transactions,          \* currentSnapshot.transactions
  existingTransactions,  \* generateMonthTransactions: the last call's argument
  generatedTransactions, \* generateMonthTransactions: the last call's local
  lastOp,                \* the handler that ran last: "loadMonth", "edit", or
                         \* the mode of a handleGenerate call
  prevOp,                \* the handler that ran before it
  runs,                  \* calls of handleGenerate so far
  edits,                 \* other handler calls so far
  splitArgs,             \* buildPaycheckSplitTransactions: the arguments of a call
  splitResult,           \* buildPaycheckSplitTransactions: what the call returned
  splitReturned,         \* whether that call has returned
  snapshot,              \* calculateForecast: the month snapshot it is given
  points,                \* calculateForecast: the ForecastPoint[] it returned
  forecastReady,         \* whether points belongs to the present snapshot
  payrollArgs,           \* calculatePayrollForMonth: the arguments of a call
  payrollResult,         \* calculatePayrollForMonth: how the call ended
  taxArgs,               \* calculateAnnualTax: the arguments of a call
  taxResult,             \* calculateAnnualTax: how the call ended
  withholdingArgs,       \* calculateFederalWithholding: the arguments of a call
  withholdingResult,     \* calculateFederalWithholding: how the call ended
  scheduleArgs,          \* the schedule functions: the arguments of a call
  scheduleResult,        \* the schedule functions: how the call ended
  currentSnapshot,       \* AppProvider: the currentSnapshot state, as one record
  monthStore,            \* storage: the month_snapshots object store, by month id
  gain_loss_history,     \* settings.gain_loss_history, by month id
  ytdBaselineSnapshot,   \* GainLossPage: the ytdBaselineSnapshot state
  yearSnapshots,         \* GainLossPage: the yearSnapshots state
  momDetailMonthId,      \* GainLossPage: the momDetailMonthId state
  remoteMonth,           \* supabase: the row of the month in the months table
  pendingPuts,           \* storage: the upsertMonth requests not yet completed
  generatePc,            \* handleGenerate: where the run is
  updatedSnapshot,       \* handleGenerate: its updatedSnapshot local
  settingsPc,            \* updateSettings: where the call is
  closureSnapshot,       \* updateSettings: the currentSnapshot of its closure
  clock,                 \* Date.now() of the writers of the month snapshot
  cloud                  \* hasCloudConfig(settings)

pageVars == <<monthId, accounts, recurring_items, monthSetup, transactions,
              existingTransactions, generatedTransactions, lastOp, prevOp, runs, edits>>
splitVars == <<splitArgs, splitResult, splitReturned>>
forecastVars == <<snapshot, points, forecastReady>>
payrollVars == <<payrollArgs, payrollResult>>
taxVars == <<taxArgs, taxResult, withholdingArgs, withholdingResult>>
scheduleVars == <<scheduleArgs, scheduleResult>>
storeVars == <<currentSnapshot, monthStore>>
gainLossVars == <<gain_loss_history, ytdBaselineSnapshot, yearSnapshots, momDetailMonthId>>
syncVars == <<remoteMonth, pendingPuts, generatePc, updatedSnapshot, settingsPc,
              closureSnapshot, clock, cloud>>
appVars == <<storeVars, gainLossVars, syncVars>>
vars == <<pageVars, splitVars, forecastVars, payrollVars, taxVars, scheduleVars, appVars>>

\* a snapshot that does not exist: null or undefined
UndefinedSnapshot == [id |-> 0]

\* the month snapshot is not loaded and the store is empty
NoStore ==
  /\ currentSnapshot = UndefinedSnapshot
  /\ monthStore = << >>

\* the Gain/Loss page is not mounted
NoGainLoss ==
  /\ gain_loss_history = << >>
  /\ ytdBaselineSnapshot = UndefinedSnapshot
  /\ yearSnapshots = << >>
  /\ momDetailMonthId = 0

\* no writer of the month snapshot is being observed
NoSync ==
  /\ remoteMonth = UndefinedSnapshot
  /\ pendingPuts = << >>
  /\ generatePc = ""
  /\ updatedSnapshot = UndefinedSnapshot
  /\ settingsPc = ""
  /\ closureSnapshot = UndefinedSnapshot
  /\ clock = 0
  /\ cloud = FALSE

NoApp == NoStore /\ NoGainLoss /\ NoSync

\* no call of the payroll engine is being observed
NoPayrollCall ==
  /\ payrollArgs = [monthId |-> 0]
  /\ payrollResult = [outcome |-> ""]

\* no call of the federal withholding functions is being observed
NoTaxCall ==
  /\ taxArgs = [taxableIncome |-> 0, brackets |-> << >>]
  /\ taxResult = [outcome |-> ""]
  /\ withholdingArgs = [taxableWagesPerPaycheck |-> 0]
  /\ withholdingResult = [outcome |-> ""]

\* no call of the schedule functions is being observed
NoScheduleCall ==
  /\ scheduleArgs = [monthId |-> 0]
  /\ scheduleResult = [outcome |-> ""]

\* the mode of the generateMonthTransactions call that has just returned
mode == IF lastOp \in {"missing", "regenerate", "reset"} THEN lastOp ELSE ""

\* Date.now() as a logical clock: the number of handlers that have run
Now == runs + edits + 1

\* a crypto.randomUUID() taken by an edit handler
FreshId == <<0, edits + 1>>

Account(id, type, included) ==
  [id |-> id, type |-> type, included_in_cash_forecast |-> included]

INITIAL_ACCOUNTS ==
  <<Account("acc1", "checking", TRUE), Account("acc2", "savings", TRUE)>>

Modes == {"missing", "regenerate", "reset"}
Schedules == {"weekly", "biweekly", "semimonthly", "monthly"}
\* payroll_settings.pay_cycle of the months the Monthly Setup page is opened on
PaySchedules == {"biweekly"}

\* the months, anchors and amounts the model draws its inputs from
MonthIds == {202402}
AnchorDates == {20240105}
\* amounts typed into a number field, in half-cents
RawAmounts == {7, -4}
PaycheckAmounts == {6}

Rent == [id |-> "rent", category_id |-> "cat2", account_id |-> "acc1",
         transfer_account_id |-> "", cadence |-> "monthly", default_amount |-> 12,
         day_rule |-> DayRule("num", 1), type |-> "expense", enabled |-> TRUE,
         anchor_date |-> 0]

RecurringScenarios == {<<Rent>>}

buildDefaultMonthSetup(id, snapshotAccounts, incomeCategory, schedule, anchor) ==
  LET cash == SelectSeq(snapshotAccounts, LAMBDA acc : acc.type # "loan")
      defaultDepositAccountId ==
        IF cash # << >> THEN cash[1].id
        ELSE IF snapshotAccounts # << >> THEN snapshotAccounts[1].id ELSE ""
  IN [paycheck_schedule |-> schedule,
      paycheck_anchor_date |-> anchor,
      paycheck_deposit_splits |->
        IF defaultDepositAccountId # ""
        THEN <<[id |-> <<0, 0>>, account_id |-> defaultDepositAccountId,
                amount |-> 0, is_remainder |-> FALSE]>>
        ELSE << >>,
      paycheck_category_id |-> incomeCategory,
      paycheck_default_amount |-> 0,
      paycheck_estimates |-> << >>,
      paycheck_overrides |-> << >>,
      variable_overrides |-> << >>,
      one_offs |-> << >>,
      last_generated_at |-> 0,
      generation_version |-> 1]

\* normalizePaycheckSplits(monthSetup, accounts), of the stored splits and the
\* legacy paycheck_deposit_account_id ("" when the setup has none); the ids of
\* the stored splits are kept
normalizePaycheckSplits(stored, legacy, accs) ==
  LET cash == SelectSeq(accs, LAMBDA acc : acc.type # "loan")
      fallbackAccountId == IF cash # << >> THEN cash[1].id
                           ELSE IF accs # << >> THEN accs[1].id ELSE ""
      legacyAccountId == IF legacy # "" THEN legacy ELSE fallbackAccountId
      single(account_id) == <<[id |-> <<0, 0>>, account_id |-> account_id,
                               amount |-> 0, is_remainder |-> TRUE]>>
      first == IF stored = << >> /\ legacyAccountId # "" THEN single(legacyAccountId)
               ELSE stored
      validIds == {cash[i].id : i \in 1..Len(cash)}
      mapped == SelectSeq([i \in 1..Len(first) |->
                             [first[i] EXCEPT !.account_id =
                                IF first[i].account_id \in validIds
                                THEN first[i].account_id ELSE fallbackAccountId]],
                          LAMBDA split : split.account_id # "")
      remainders == {i \in 1..Len(mapped) : mapped[i].is_remainder}
      assigned == [i \in 1..Len(mapped) |->
                     IF ~mapped[i].is_remainder THEN mapped[i]
                     ELSE IF \E j \in remainders : j < i
                          THEN [mapped[i] EXCEPT !.is_remainder = FALSE]
                     ELSE [mapped[i] EXCEPT !.amount = 0]]
      filled == IF assigned = << >> /\ fallbackAccountId # ""
                THEN single(fallbackAccountId) ELSE assigned
  IN IF Len(filled) = 1 /\ ~filled[1].is_remainder
     THEN <<[filled[1] EXCEPT !.is_remainder = TRUE, !.amount = 0]>>
     ELSE filled

----------------------------------------------------------------------------
(* Monthly Setup page: deposit splits *)

splits == monthSetup.paycheck_deposit_splits

updateMonthSetup(field, value) ==
  monthSetup' = [monthSetup EXCEPT ![field] = value]

Edit ==
  /\ edits < MaxEdits
  /\ edits' = edits + 1
  /\ lastOp' = "edit"
  /\ prevOp' = lastOp
  /\ UNCHANGED <<splitVars, forecastVars, payrollVars, taxVars, scheduleVars, appVars>>

\* the other splits keep their remainder flag
setSplitTypeResult_KeepsOthers(list, id, type) ==
  MapSeq(LAMBDA split :
           IF split.id # id THEN split
           ELSE IF type = "remainder"
                THEN [split EXCEPT !.is_remainder = TRUE, !.amount = 0]
           ELSE [split EXCEPT !.is_remainder = FALSE],
         list)

setSplitTypeResult(list, id, type) ==
  MapSeq(LAMBDA split :
           IF split.id # id
           THEN (IF type = "remainder" THEN [split EXCEPT !.is_remainder = FALSE]
                 ELSE split)
           ELSE IF type = "remainder"
                THEN [split EXCEPT !.is_remainder = TRUE, !.amount = 0]
           ELSE [split EXCEPT !.is_remainder = FALSE],
         list)

setSplitType ==
  \E i \in 1..Len(splits), type \in {"fixed", "remainder"} :
    /\ Edit
    /\ updateMonthSetup("paycheck_deposit_splits",
                        setSplitTypeResult(splits, splits[i].id, type))
    /\ UNCHANGED <<monthId, accounts, recurring_items, transactions,
                   existingTransactions, generatedTransactions, runs>>

\* settings.accounts sorted by name (the ids follow the names), loans left out
cashAccounts == SelectSeq(accounts, LAMBDA acc : acc.type # "loan")

handleAddSplit ==
  LET existingAccountIds == {splits[i].account_id : i \in 1..Len(splits)}
      unused == SelectSeq(cashAccounts, LAMBDA acc : acc.id \notin existingAccountIds)
      available == IF unused # << >> THEN unused[1] ELSE cashAccounts[1]
  IN /\ cashAccounts # << >>
     /\ Edit
     /\ updateMonthSetup("paycheck_deposit_splits",
                         Append(splits, [id |-> FreshId, account_id |-> available.id,
                                         amount |-> 0, is_remainder |-> FALSE]))
     /\ UNCHANGED <<monthId, accounts, recurring_items, transactions,
                    existingTransactions, generatedTransactions, runs>>

handleRemoveSplit ==
  \E i \in 1..Len(splits) :
    /\ Edit
    /\ updateMonthSetup("paycheck_deposit_splits",
                        SelectSeq(splits, LAMBDA split : split.id # splits[i].id))
    /\ UNCHANGED <<monthId, accounts, recurring_items, transactions,
                   existingTransactions, generatedTransactions, runs>>

\* the remainder split's field snaps back to 0 and nothing is stored
commitSplitAmount ==
  \E i \in 1..Len(splits), raw \in RawAmounts :
    /\ ~splits[i].is_remainder
    /\ Edit
    /\ updateMonthSetup("paycheck_deposit_splits",
                        [splits EXCEPT ![i].amount = roundToCents(raw)])
    /\ UNCHANGED <<monthId, accounts, recurring_items, transactions,
                   existingTransactions, generatedTransactions, runs>>

\* the account drop-down of a split row
setSplitAccount ==
  \E i \in 1..Len(splits), a \in 1..Len(cashAccounts) :
    /\ splits[i].account_id # cashAccounts[a].id
    /\ Edit
    /\ updateMonthSetup("paycheck_deposit_splits",
                        [splits EXCEPT ![i].account_id = cashAccounts[a].id])
    /\ UNCHANGED <<monthId, accounts, recurring_items, transactions,
                   existingTransactions, generatedTransactions, runs>>

----------------------------------------------------------------------------
(* Month Detail page: a transaction saved by hand *)

handleSaveTx ==
  \E type \in {"income", "expense"}, raw \in {5} :
    LET rawAmount == Abs(raw)
        normalizedAmount == IF type = "expense" THEN -roundToCents(rawAmount)
                            ELSE roundToCents(rawAmount)
        tx == [id |-> FreshId,
               date |-> MonthDay(monthId, 1),
               amount |-> normalizedAmount,
               account_id |-> accounts[1].id,
               transfer_account_id |-> "",
               transaction_type |-> type,
               category_id |-> "cat2",
               source |-> "",
               source_item_id |-> NoKey,
               generated_batch_id |-> 0]
    IN /\ accounts # << >>
       /\ Edit
       /\ transactions' = Append(transactions, tx)
       /\ UNCHANGED <<monthId, accounts, recurring_items, monthSetup,
                      existingTransactions, generatedTransactions, runs>>

----------------------------------------------------------------------------
(* Monthly Setup page: Generate Forecast *)

handleGenerate ==
  \E generateMode \in Modes,
     generated \in {buildGeneratedTransactions(monthId, monthSetup, recurring_items,
                                               runs + 1)} :
    /\ runs < MaxRuns
    /\ runs' = runs + 1
    /\ lastOp' = generateMode
    /\ prevOp' = lastOp
    /\ existingTransactions' = transactions
    /\ generatedTransactions' = generated
    /\ transactions' = nextTransactions(transactions, generated, generateMode)
    /\ monthSetup' = bumpMonthSetup(monthSetup, Now)
    /\ UNCHANGED <<monthId, accounts, recurring_items, edits>>
    /\ UNCHANGED <<splitVars, forecastVars, payrollVars, taxVars, scheduleVars, appVars>>

----------------------------------------------------------------------------
(* The Monthly Setup page of a freshly loaded month *)

\* no call of buildPaycheckSplitTransactions is being observed
NoSplitCall ==
  /\ splitArgs = [entry |-> [date |-> 0, amount |-> 0, is_bonus |-> FALSE],
                  splits |-> << >>, paycheck_category_id |-> ""]
  /\ splitResult = << >>
  /\ splitReturned = FALSE

\* no forecast is being observed
NoForecast ==
  /\ snapshot = [id |-> 0, accounts |-> << >>, starting_balances |-> << >>,
                 transactions |-> << >>]
  /\ points = << >>
  /\ forecastReady = FALSE

Init ==
  /\ monthId \in MonthIds
  /\ accounts = INITIAL_ACCOUNTS
  /\ recurring_items \in RecurringScenarios
  /\ \E schedule \in PaySchedules, anchor \in AnchorDates, amount \in PaycheckAmounts,
        category \in {"cat0", ""} :
       LET setup == buildDefaultMonthSetup(monthId, accounts, category, schedule, anchor)
       IN monthSetup =
            [setup EXCEPT !.paycheck_default_amount = amount,
                          !.paycheck_deposit_splits[1].is_remainder = TRUE]
  /\ transactions = << >>
  /\ existingTransactions = << >>
  /\ generatedTransactions = << >>
  /\ lastOp = "loadMonth"
  /\ prevOp = ""
  /\ runs = 0
  /\ edits = 0
  /\ NoSplitCall
  /\ NoForecast
  /\ NoPayrollCall /\ NoTaxCall /\ NoScheduleCall /\ NoApp
Next ==
  \/ setSplitType
  \/ handleAddSplit
  \/ handleRemoveSplit
  \/ commitSplitAmount
  \/ setSplitAccount
  \/ handleSaveTx
  \/ handleGenerate

Spec == Init /\ [][Next]_vars

----------------------------------------------------------------------------
(* buildPaycheckSplitTransactions on its own: one call per behaviour *)

MaxSplits == 2

SeqsUpTo(S, n) == UNION {[1..k -> S] : k \in 0..n}

\* amounts are whole cents, of either sign: every commit handler of the page
\* stores roundToCents(Number(input))
SplitAmounts == {0, 4, -4, 8}
EntryAmounts == {6, -6}

SplitRows ==
  [account_id : {"", "acc1", "acc2"}, amount : SplitAmounts, is_remainder : {FALSE}]
  \cup [account_id : {"", "acc1", "acc2"}, amount : {0}, is_remainder : {TRUE}]

WithSplitIds(rows) ==
  [i \in 1..Len(rows) |->
     [id |-> <<0, i>>, account_id |-> rows[i].account_id,
      amount |-> rows[i].amount, is_remainder |-> rows[i].is_remainder]]

NoPage ==
  /\ monthId = 0
  /\ accounts = << >>
  /\ recurring_items = << >>
  /\ monthSetup = [paycheck_category_id |-> ""]
  /\ transactions = << >>
  /\ existingTransactions = << >>
  /\ generatedTransactions = << >>
  /\ lastOp = ""
  /\ prevOp = ""
  /\ runs = 0
  /\ edits = 0

InitSplits ==
  /\ \E rows \in SeqsUpTo(SplitRows, MaxSplits), amount \in EntryAmounts,
        is_bonus \in BOOLEAN, category \in {"cat0", ""} :
       splitArgs = [entry |-> [date |-> 20240202, amount |-> amount,
                               is_bonus |-> is_bonus],
                    splits |-> WithSplitIds(rows),
                    paycheck_category_id |-> category]
  /\ splitResult = << >>
  /\ splitReturned = FALSE
  /\ NoPage
  /\ NoForecast
  /\ NoPayrollCall /\ NoTaxCall /\ NoScheduleCall /\ NoApp
callBuildPaycheckSplitTransactions ==
  /\ ~splitReturned
  /\ splitResult' =
       buildPaycheckSplitTransactions(
         splitArgs.entry, splitArgs.splits,
         [paycheck_category_id |-> splitArgs.paycheck_category_id], 1)
  /\ splitReturned' = TRUE
  /\ UNCHANGED <<splitArgs, pageVars, forecastVars, payrollVars, taxVars, scheduleVars, appVars>>

NextSplits == callBuildPaycheckSplitTransactions

SpecSplits == InitSplits /\ [][NextSplits]_vars

----------------------------------------------------------------------------
(* The Dashboard's forecast of the current snapshot, and the Settings page's
   account editor, which is how the snapshot's accounts change *)

MaxTx == 2

ForecastMonths == {202302, 202402, 202404, 202401}

\* 'savings' is left out: no code path of the forecast tells it from 'checking'
AccountTypes == {"checking", "investment", "loan"}

Tx(id, date, amount, account_id, transfer_account_id, transaction_type) ==
  [id |-> id, date |-> date, amount |-> amount, account_id |-> account_id,
   transfer_account_id |-> transfer_account_id,
   transaction_type |-> transaction_type]

NextMonthId(id) == IF id % 100 = 12 THEN id + 89 ELSE id + 1

\* the transactions a month is drawn from: ordinary ones, transfers in both
\* sign conventions, an unknown account on either side, a 'transfer' without a
\* destination, and a date outside the month, after it or before it
TxChoices(id) ==
  LET first == MonthDay(id, 1)
      last == MonthDay(id, forecastDays(id))
  IN { Tx(NoId, first, -30, "acc1", "", "expense"),
       Tx(NoId, last, -20, "acc1", "acc2", "transfer"),
       Tx(NoId, first, 10, "acc2", "acc1", "transfer"),
       Tx(NoId, first, 6, "acc9", "", "income"),
       Tx(NoId, last, -8, "acc1", "acc9", "transfer"),
       Tx(NoId, first, -12, "acc2", "", "transfer"),
       Tx(NoId, MonthDay(NextMonthId(id), 1), 70, "acc2", "", "income"),
       Tx(NoId, formatDate(parseDate(first) - 1), 40, "acc1", "", "income") }

WithTxIds(txs) == [i \in 1..Len(txs) |-> [txs[i] EXCEPT !.id = <<1, i>>]]

\* App: ensureStartingBalances
ensureStartingBalances(balances, accs) ==
  MapSeq(LAMBDA acc : [account_id |-> acc.id,
                       amount |-> startingBalance(balances, acc.id)],
         accs)

InitForecast ==
  /\ \E id \in ForecastMonths :
       \E txs \in SeqsUpTo(TxChoices(id), MaxTx) :
         snapshot = [id |-> id,
                     accounts |-> INITIAL_ACCOUNTS,
                     starting_balances |-> <<[account_id |-> "acc1", amount |-> 100]>>,
                     transactions |-> WithTxIds(txs)]
  /\ points = << >>
  /\ forecastReady = FALSE
  /\ NoPage
  /\ NoSplitCall
  /\ NoPayrollCall /\ NoTaxCall /\ NoScheduleCall /\ NoApp
\* Dashboard: useMemo(() => calculateForecast(currentSnapshot))
Dashboard ==
  /\ ~forecastReady
  /\ points' = calculateForecast(snapshot)
  /\ forecastReady' = TRUE
  /\ UNCHANGED <<snapshot, pageVars, splitVars, payrollVars, taxVars, scheduleVars, appVars>>

\* Settings: the account editor saves an existing account with the type and
\* the "include in cash forecast" box as the user left them; updateSettings
\* then normalizes the current snapshot
handleAccountSave ==
  \E i \in 1..Len(snapshot.accounts), type \in AccountTypes, included \in BOOLEAN :
    LET acc == [snapshot.accounts[i] EXCEPT !.type = type,
                                            !.included_in_cash_forecast = included]
        list == [snapshot.accounts EXCEPT ![i] = acc]
    IN /\ normalizeAccounts(list) # snapshot.accounts
       /\ snapshot' =
            [snapshot EXCEPT
               !.accounts = normalizeAccounts(list),
               !.starting_balances =
                  ensureStartingBalances(snapshot.starting_balances, list)]
       /\ points' = << >>
       /\ forecastReady' = FALSE
       /\ UNCHANGED <<pageVars, splitVars, payrollVars, taxVars, scheduleVars, appVars>>

NextForecast ==
  \/ Dashboard
  \/ handleAccountSave

SpecForecast == InitForecast /\ [][NextForecast]_vars

----------------------------------------------------------------------------
(* calculatePayrollForMonth on its own: one call per behaviour, as the
   Monthly Setup page and the Payroll Settings preview make it *)

MaxBonus == 1

PayrollMonths == {202401, 202403, 202412}
PayrollAnchors == {20231229}

K401(enabled, contribution_mode, contribution_value, enforce_annual_max, catch_up_enabled, catch_up_amount_override) ==
  [enabled |-> enabled, contribution_mode |-> contribution_mode,
   contribution_value |-> contribution_value,
   enforce_annual_max |-> enforce_annual_max,
   catch_up_enabled |-> catch_up_enabled,
   catch_up_amount_override |-> catch_up_amount_override]

K401Choices ==
  { K401(FALSE, "percent", 50, TRUE, FALSE, Null),
    K401(TRUE, "percent", 50, TRUE, FALSE, Null),
    K401(TRUE, "percent", 50, TRUE, TRUE, Null),
    K401(TRUE, "fixed_per_paycheck", 700, TRUE, TRUE, 300),
    K401(TRUE, "percent", 50, FALSE, FALSE, Null) }

FicaChoices ==
  { [include_fica |-> FALSE, ss_wage_base_override |-> Null,
     additional_medicare_threshold_override |-> Null],
    [include_fica |-> TRUE, ss_wage_base_override |-> Null,
     additional_medicare_threshold_override |-> Null],
    [include_fica |-> TRUE, ss_wage_base_override |-> 4000,
     additional_medicare_threshold_override |-> 7000] }

BonusEvent(id, date, gross_amount, method) ==
  [id |-> id, date |-> date, gross_amount |-> gross_amount, method |-> method]

\* bonuses of the year, of the year before, and of a later month
BonusChoices ==
  { BonusEvent("b1", 20240215, 5000, "supplemental_flat"),
    BonusEvent("b2", 20231220, 4000, "regular_annualized"),
    BonusEvent("b3", 20240329, 1000, "regular_annualized") }

PayrollSettings(filing_status, k401, fica, bonus_events) ==
  [tax_year |-> 2024,
   filing_status |-> filing_status,
   salary_annual |-> 31200,
   dependents_count |-> 1,
   dependent_credit_override |-> Null,
   other_income_annual |-> 0,
   deductions_annual |-> 0,
   extra_withholding_per_paycheck |-> 10,
   state_withholding_flat_rate |-> 5,
   k401 |-> k401,
   benefits |-> [pre_tax_benefits_per_paycheck |-> 100,
                 post_tax_deductions_per_paycheck |-> 20],
   fica |-> fica,
   bonus_events |-> bonus_events]

\* a tax table that validateTaxTableSet accepts
ValidTaxTables ==
  [tax_year |-> 2024,
   federal_income_tax_brackets |->
     [status \in FilingStatuses |->
        <<Bracket(0, 12000, 10), Bracket(12000, Null, 20)>>],
   standard_deduction |-> [status \in FilingStatuses |-> 2400],
   dependent_credit |-> [per_dependent_credit_amount |-> 240],
   federal_supplemental_withholding_rate |-> 22,
   fica |-> [ss_rate |-> 6, medicare_rate |-> 1, ss_wage_base |-> 6000,
             additional_medicare_rate |-> 1,
             additional_medicare_threshold |->
               [status \in FilingStatuses |->
                  IF status = "married_joint" THEN 8000 ELSE 5000]],
   retirement |-> [k401_employee_max |-> 2000, k401_catch_up_max |-> 500]]

\* the tables a call is given: a valid one, and two that cloud sync can store
\* without validation, one with empty bracket arrays and one without the
\* retirement limits
TaxTableChoices ==
  { ValidTaxTables,
    [ValidTaxTables EXCEPT
       !.federal_income_tax_brackets = [status \in FilingStatuses |-> << >>]],
    [ValidTaxTables EXCEPT !.retirement = UndefinedObject] }

InitPayroll ==
  /\ \E monthOfCall \in PayrollMonths, schedule \in Schedules,
        anchorDate \in PayrollAnchors, filing_status \in {"single", "married_joint"},
        k401 \in K401Choices, fica \in FicaChoices,
        bonus_events \in SeqsUpTo(BonusChoices, MaxBonus),
        taxTables \in TaxTableChoices :
       payrollArgs =
         [monthId |-> monthOfCall, schedule |-> schedule, anchorDate |-> anchorDate,
          payrollSettings |-> PayrollSettings(filing_status, k401, fica, bonus_events),
          taxTables |-> taxTables]
  /\ payrollResult = [outcome |-> ""]
  /\ NoPage /\ NoSplitCall /\ NoForecast /\ NoTaxCall /\ NoScheduleCall /\ NoApp
callCalculatePayrollForMonth ==
  /\ payrollResult.outcome = ""
  /\ payrollResult' = calculatePayrollForMonth(payrollArgs)
  /\ UNCHANGED <<payrollArgs, pageVars, splitVars, forecastVars, taxVars, scheduleVars, appVars>>

NextPayroll == callCalculatePayrollForMonth

SpecPayroll == InitPayroll /\ [][NextPayroll]_vars

----------------------------------------------------------------------------
(* calculateAnnualTax and calculateFederalWithholding on their own: a
   behaviour is one call of one of them *)

TaxableIncomes == {-2400, 0, 100, 2400, 10000, 12000, 15000, 28800}

\* ordered, contiguous brackets from 0 with an unbounded top bracket
BracketChoices ==
  { <<Bracket(0, Null, 10)>>,
    <<Bracket(0, 10000, 10), Bracket(10000, Null, 20)>>,
    <<Bracket(0, 2400, 10), Bracket(2400, 12000, 20), Bracket(12000, Null, 30)>> }

\* the arguments of calculateFederalWithholding: the amounts are such that
\* the annual tax after credits is a multiple of the pay periods
WithholdingChoices ==
  [taxableWagesPerPaycheck : {0, 600, 2400},
   payPeriodsPerYear : {12, 24},
   standardDeduction : {2400},
   deductionsAnnual : {0, 2400},
   otherIncomeAnnual : {0, 2400},
   brackets : { <<Bracket(0, Null, 10)>>,
                <<Bracket(0, 2400, 10), Bracket(2400, 12000, 20),
                  Bracket(12000, Null, 30)>> },
   dependentCredit : {240},
   dependentsCount : {0, 2},
   dependentCreditOverride : {Null, 0, 480, 48000},
   extraWithholdingPerPaycheck : {0, 10, -50}]

InitWithholding ==
  /\ \/ /\ \E taxableIncome \in TaxableIncomes, brackets \in BracketChoices :
             taxArgs = [taxableIncome |-> taxableIncome, brackets |-> brackets]
        /\ withholdingArgs = [taxableWagesPerPaycheck |-> 0]
     \/ /\ taxArgs = [taxableIncome |-> 0, brackets |-> << >>]
        /\ withholdingArgs \in WithholdingChoices
  /\ taxResult = [outcome |-> ""]
  /\ withholdingResult = [outcome |-> ""]
  /\ NoPage /\ NoSplitCall /\ NoForecast /\ NoPayrollCall /\ NoScheduleCall /\ NoApp
callCalculateAnnualTax ==
  /\ taxArgs.brackets # << >>
  /\ taxResult.outcome = ""
  /\ taxResult' =
       [outcome |-> "returned",
        value |-> calculateAnnualTax(taxArgs.taxableIncome, taxArgs.brackets)]
  /\ UNCHANGED <<taxArgs, withholdingArgs, withholdingResult, pageVars, splitVars,
                 forecastVars, payrollVars, scheduleVars, appVars>>

callCalculateFederalWithholding ==
  /\ "payPeriodsPerYear" \in DOMAIN withholdingArgs
  /\ withholdingResult.outcome = ""
  /\ withholdingResult' =
       [outcome |-> "returned", value |-> calculateFederalWithholding(withholdingArgs)]
  /\ UNCHANGED <<taxArgs, taxResult, withholdingArgs, pageVars, splitVars,
                 forecastVars, payrollVars, scheduleVars, appVars>>

NextWithholding ==
  \/ callCalculateAnnualTax
  \/ callCalculateFederalWithholding

SpecWithholding == InitWithholding /\ [][NextWithholding]_vars

----------------------------------------------------------------------------
(* The schedule functions on their own: a behaviour is one computation of the
   dates of one month, by getScheduleDates, by the recurring items of
   generateMonthTransactions or by getPayDatesForMonth *)

\* months of 28, 31, 29, 30 and 31 days, December included
ScheduleMonths == {202302, 202401, 202402, 202404, 202412}

\* anchors in an earlier year, in an earlier month, in the month and after it
ScheduleAnchors == {20231129, 20240101, 20240131, 20240215, 20240229, 20250310}

Cadences == {"weekly", "biweekly", "semimonthly", "monthly"}

\* 'last', 'day:15', 'day:31', '0', '30', '45', '-3' and '' or any other text
DayRules ==
  { DayRule("last", 0), DayRule("day", 15), DayRule("day", 31), DayRule("num", 0),
    DayRule("num", 30), DayRule("num", 45), DayRule("num", -3), DayRule("nan", 0) }

\* anchor_date 0 is a recurring item without an anchor date, or a paycheck
\* anchor date the date input was cleared of
InitSchedule ==
  /\ \E month \in ScheduleMonths, cadence \in Cadences,
        anchor_date \in ScheduleAnchors \cup {0}, day_rule \in DayRules :
       scheduleArgs = [monthId |-> month, cadence |-> cadence,
                       anchor_date |-> anchor_date, day_rule |-> day_rule]
  /\ scheduleResult = [outcome |-> ""]
  /\ NoPage /\ NoSplitCall /\ NoForecast /\ NoPayrollCall /\ NoTaxCall /\ NoApp
\* getScheduleDates(monthId, paycheck_schedule, paycheck_anchor_date)
callGetScheduleDates ==
  /\ scheduleArgs.monthId # 0
  /\ scheduleResult.outcome = ""
  /\ scheduleResult' =
       [outcome |-> "returned", by |-> "getScheduleDates",
        dates |-> getScheduleDates(scheduleArgs.monthId, scheduleArgs.cadence,
                                   scheduleArgs.anchor_date)]
  /\ UNCHANGED <<scheduleArgs, pageVars, splitVars, forecastVars, payrollVars, taxVars, appVars>>

\* the dates generateMonthTransactions gives a recurring item
callItemDates ==
  /\ scheduleArgs.monthId # 0
  /\ scheduleResult.outcome = ""
  /\ scheduleResult' =
       [outcome |-> "returned", by |-> "generateMonthTransactions",
        dates |-> ItemDates(scheduleArgs.monthId, scheduleArgs)]
  /\ UNCHANGED <<scheduleArgs, pageVars, splitVars, forecastVars, payrollVars, taxVars, appVars>>

\* getPayDatesForMonth(monthId, schedule, anchorDate) of the payroll engine
callGetPayDatesForMonth ==
  /\ scheduleArgs.monthId # 0
  /\ scheduleResult.outcome = ""
  /\ scheduleResult' =
       [outcome |-> "returned", by |-> "getPayDatesForMonth",
        dates |-> getPayDatesForMonth(scheduleArgs.monthId, scheduleArgs.cadence,
                                      scheduleArgs.anchor_date)]
  /\ UNCHANGED <<scheduleArgs, pageVars, splitVars, forecastVars, payrollVars, taxVars, appVars>>

NextSchedule ==
  \/ callGetScheduleDates
  \/ callItemDates
  \/ callGetPayDatesForMonth

SpecSchedule == InitSchedule /\ [][NextSchedule]_vars

----------------------------------------------------------------------------
(* generateMonthTransactions on its own: the Generate Forecast button pressed
   up to MaxRuns times on one month setup and one list of recurring items *)

GenerateMonth == 202402

RecurringItem(id, type, account_id, category_id, cadence, default_amount, enabled) ==
  [id |-> id, category_id |-> category_id, account_id |-> account_id,
   transfer_account_id |-> IF type = "transfer" THEN "acc2" ELSE "",
   cadence |-> cadence, default_amount |-> default_amount,
   day_rule |-> DayRule("num", 1), type |-> type, enabled |-> enabled,
   anchor_date |-> IF cadence = "biweekly" THEN 20240112 ELSE 0]

\* items of every type, with amounts of either sign, disabled, without an
\* account and without a category
RecurringChoices ==
  { << >>,
    <<RecurringItem("rent", "expense", "acc1", "cat2", "monthly", 12, TRUE)>>,
    <<RecurringItem("rent", "expense", "acc1", "cat2", "monthly", -12, TRUE)>>,
    <<RecurringItem("gift", "income", "acc1", "cat1", "semimonthly", -8, TRUE)>>,
    <<RecurringItem("save", "transfer", "acc1", "cat3", "biweekly", 4, TRUE)>>,
    <<RecurringItem("rent", "expense", "acc1", "cat2", "monthly", 12, FALSE)>>,
    <<RecurringItem("rent", "expense", "", "cat2", "monthly", 12, TRUE)>>,
    <<RecurringItem("rent", "expense", "acc1", "", "weekly", 12, TRUE)>>,
    <<RecurringItem("rent", "expense", "acc1", "cat2", "weekly", 12, TRUE),
      RecurringItem("gift", "income", "acc2", "cat1", "monthly", 8, TRUE)>> }

PaycheckEntry(id, date, amount, is_bonus) ==
  [id |-> id, date |-> date, amount |-> amount, is_bonus |-> is_bonus]

\* the estimates the payroll engine cached for the month: none, or two
\* paychecks (one of amount 0) and a bonus
EstimateChoices ==
  { << >>,
    <<PaycheckEntry(<<9, 1>>, 20240202, 10, FALSE),
      PaycheckEntry(<<9, 2>>, 20240216, 0, FALSE),
      PaycheckEntry(<<9, 3>>, 20240216, 20, TRUE)>> }

\* the overrides of the page: none; the amount of the paycheck of 2 February
\* changed to 8; that paycheck set to 0; the paycheck of 16 February moved to
\* the 20th (setPaycheckDate stores every entry of the page as an override)
OverrideChoices ==
  { << >>,
    <<PaycheckEntry(<<9, 4>>, 20240202, 8, FALSE)>>,
    <<PaycheckEntry(<<9, 4>>, 20240202, 0, FALSE)>>,
    <<PaycheckEntry(<<9, 4>>, 20240202, 6, FALSE),
      PaycheckEntry(<<9, 5>>, 20240220, 6, FALSE)>> }

VariableOverrideChoices == { << >>, <<[item_id |-> "rent", amount |-> 9]>> }

InitGenerate ==
  /\ monthId = GenerateMonth
  /\ accounts = INITIAL_ACCOUNTS
  /\ recurring_items \in RecurringChoices
  /\ \E amount \in {0, 6}, estimates \in EstimateChoices, overrides \in OverrideChoices,
        variable \in VariableOverrideChoices :
       LET setup == buildDefaultMonthSetup(monthId, accounts, "cat0", "biweekly", 20240105)
       IN monthSetup =
            [setup EXCEPT !.paycheck_default_amount = amount,
                          !.paycheck_deposit_splits[1].is_remainder = TRUE,
                          !.paycheck_estimates = estimates,
                          !.paycheck_overrides = overrides,
                          !.variable_overrides = variable]
  /\ transactions = << >>
  /\ existingTransactions = << >>
  /\ generatedTransactions = << >>
  /\ lastOp = "loadMonth"
  /\ prevOp = ""
  /\ runs = 0
  /\ edits = 0
  /\ NoSplitCall /\ NoForecast /\ NoPayrollCall /\ NoTaxCall /\ NoScheduleCall /\ NoApp
NextGenerate == handleGenerate

SpecGenerate == InitGenerate /\ [][NextGenerate]_vars

----------------------------------------------------------------------------
(* The deposit splits of the Monthly Setup page, from the normalised splits of
   a stored month setup on *)

\* stored split rows: of a cash account or of an account that is no longer
\* one, fixed or remainder, with or without an amount
StoredSplitRows ==
  [account_id : {"acc1", "acc9"}, amount : {0, 4}, is_remainder : BOOLEAN]

StoredSplits == UNION {[1..k -> StoredSplitRows] : k \in 0..2}

\* the stored rows with their ids
WithStoredIds(rows) ==
  [i \in 1..Len(rows) |->
     [id |-> <<1, i>>, account_id |-> rows[i].account_id,
      amount |-> rows[i].amount, is_remainder |-> rows[i].is_remainder]]

InitSetup ==
  /\ monthId \in MonthIds
  /\ accounts = INITIAL_ACCOUNTS
  /\ recurring_items = << >>
  /\ \E rows \in StoredSplits, legacy \in {"", "acc2"} :
       LET setup == buildDefaultMonthSetup(monthId, accounts, "cat0", "biweekly", 20240105)
       IN monthSetup =
            [setup EXCEPT !.paycheck_deposit_splits =
                            normalizePaycheckSplits(WithStoredIds(rows), legacy, accounts)]
  /\ transactions = << >>
  /\ existingTransactions = << >>
  /\ generatedTransactions = << >>
  /\ lastOp = "loadMonth"
  /\ prevOp = ""
  /\ runs = 0
  /\ edits = 0
  /\ NoSplitCall /\ NoForecast /\ NoPayrollCall /\ NoTaxCall /\ NoScheduleCall /\ NoApp
NextSetup ==
  \/ setSplitType
  \/ handleAddSplit
  \/ handleRemoveSplit
  \/ commitSplitAmount
  \/ setSplitAccount

SpecSetup == InitSetup /\ [][NextSetup]_vars

----------------------------------------------------------------------------
(* Properties of the generator, checked under Spec *)

Generated(txs) == SelectSeq(txs, LAMBDA tx : tx.source = "generated")
NotGenerated(txs) == SelectSeq(txs, LAMBDA tx : tx.source # "generated")
Ids(txs) == {tx.id : tx \in Range(txs)}
Keys(txs) == {tx.source_item_id : tx \in Range(txs)}
JustGenerated == lastOp \in Modes

\* C1: a run in mode 'regenerate' returns the existing transactions whose source
\* is not 'generated', unchanged and in their order, none of the transactions
\* that were generated before, and as its generated part exactly the set this
\* run generated.
C1_RegenerateReplacesGenerated ==
  (JustGenerated /\ mode = "regenerate") =>
    /\ NotGenerated(transactions) = NotGenerated(existingTransactions)
    /\ Ids(transactions) \cap Ids(Generated(existingTransactions)) = {}
    /\ Generated(transactions) = generatedTransactions
    /\ \A tx \in Range(generatedTransactions) : tx.generated_batch_id = runs

C1_Witness ==
  /\ JustGenerated /\ mode = "regenerate"
  /\ Generated(existingTransactions) # << >>
  /\ NotGenerated(existingTransactions) # << >>
  /\ generatedTransactions # << >>

\* C2: a run in mode 'missing' returns every existing transaction unchanged,
\* followed by exactly those freshly generated transactions whose
\* source_item_id no existing transaction carries.
C2_MissingOnlyAppendsNewKeys ==
  (JustGenerated /\ mode = "missing") =>
    LET n == Len(existingTransactions)
        appended == SubSeq(transactions, n + 1, Len(transactions))
    IN /\ Len(transactions) >= n
       /\ SubSeq(transactions, 1, n) = existingTransactions
       /\ Range(appended) \subseteq Range(generatedTransactions)
       /\ \A tx \in Range(generatedTransactions) :
            tx \in Range(appended) <=>
              tx.source_item_id \notin Keys(existingTransactions)
       /\ Len(appended) = Cardinality(Range(appended))

C2_Witness ==
  /\ JustGenerated /\ mode = "missing"
  /\ NotGenerated(existingTransactions) # << >>
  /\ Generated(existingTransactions) # << >>
  /\ Len(transactions) > Len(existingTransactions)
  /\ Len(transactions) < Len(existingTransactions) + Len(generatedTransactions)

\* a transaction of the list handed to the run is still in the list it returned,
\* with its date, amount and account
Survives(tx) ==
  \E t \in Range(transactions) :
    /\ t.id = tx.id
    /\ t.date = tx.date
    /\ t.amount = tx.amount
    /\ t.account_id = tx.account_id

Projection(txs) ==
  [i \in 1..Len(txs) |->
     <<txs[i].date, txs[i].amount, txs[i].account_id, txs[i].source_item_id>>]

\* C4: two runs in mode 'regenerate' in a row, the second fed the transactions
\* of the first and nothing edited in between, return the same transactions
\* when projected to (date, amount, account_id, source_item_id).
C4_RegenerateIdempotent ==
  (lastOp = "regenerate" /\ prevOp = "regenerate") =>
    /\ Range(Projection(transactions)) = Range(Projection(existingTransactions))
    /\ Projection(transactions) = Projection(existingTransactions)

C4_Witness ==
  /\ lastOp = "regenerate" /\ prevOp = "regenerate"
  /\ Len(generatedTransactions) >= 2
  /\ NotGenerated(transactions) # << >>
  /\ Ids(transactions) # Ids(existingTransactions)

\* C5: within one run no two generated transactions carry the same
\* source_item_id.
C5_GeneratedKeysUnique ==
  JustGenerated =>
    \A i, j \in 1..Len(generatedTransactions) :
      generatedTransactions[i].source_item_id = generatedTransactions[j].source_item_id
        => i = j

\* C6: every run, whatever its mode, returns a month_setup whose
\* generation_version is one more than the one it was given and whose other
\* fields, last_generated_at aside, are the ones it was given; the recurring
\* items stay as they were.
C6_EveryRunBumpsVersionByOne ==
  [][runs' = runs + 1 =>
       /\ monthSetup'.generation_version = monthSetup.generation_version + 1
       /\ [monthSetup' EXCEPT !.generation_version = monthSetup.generation_version,
                              !.last_generated_at = monthSetup.last_generated_at]
            = monthSetup
       /\ recurring_items' = recurring_items]_vars

C6_Witness ==
  /\ runs = 2
  /\ monthSetup.generation_version = 3
  /\ lastOp = "missing" /\ prevOp = "reset"


----------------------------------------------------------------------------
(* Properties of buildPaycheckSplitTransactions, checked under SpecSplits *)

Amounts(txs) == MapSeq(LAMBDA tx : tx.amount, txs)

\* the splits that have an account
EligibleSplits == SelectSeq(splitArgs.splits, LAMBDA split : split.account_id # "")
\* the fixed splits that are given a transaction
FixedSplits ==
  SelectSeq(EligibleSplits, LAMBDA split : ~split.is_remainder /\ split.amount # 0)
RemainderSplits == SelectSeq(EligibleSplits, LAMBDA split : split.is_remainder)

\* C7, as stated: with a paycheck category set, every fixed deposit split (one
\* with an account and a non-zero amount) yields a transaction of its
\* configured amount, the remainder split yields
\* max(paycheck amount - sum of fixed amounts, 0) rounded to cents (no
\* transaction being needed for 0), and when a remainder split exists and the
\* fixed total does not exceed the paycheck amount the transactions sum to the
\* paycheck amount.
C7_SplitsGetConfiguredAmounts ==
  (splitReturned /\ splitArgs.paycheck_category_id # "") =>
    LET configuredTotal == SumSeq(Amounts(FixedSplits))
        remainder == roundToCents(Max(splitArgs.entry.amount - configuredTotal, 0))
    IN /\ \A i \in 1..Len(FixedSplits) :
            \E k \in 1..Len(splitResult) :
              /\ splitResult[k].account_id = FixedSplits[i].account_id
              /\ splitResult[k].amount = FixedSplits[i].amount
       /\ (RemainderSplits # << >> /\ remainder # 0) =>
            \E k \in 1..Len(splitResult) :
              /\ splitResult[k].account_id = RemainderSplits[1].account_id
              /\ splitResult[k].amount = remainder
       /\ (RemainderSplits # << >> /\ configuredTotal <= splitArgs.entry.amount) =>
            SumSeq(Amounts(splitResult)) = splitArgs.entry.amount

\* C7, amended: nothing is generated without a paycheck category or without a
\* split that has an account; otherwise every split with an account and a
\* non-zero fixed amount yields, in order, one transaction of the absolute
\* value of its amount, then the first remainder split with an account yields
\* roundToCents(max(|paycheck amount| - sum of |fixed amounts|, 0)) unless that
\* is 0; hence when a remainder split exists and the sum of |fixed amounts|
\* does not exceed |paycheck amount|, the transactions sum to |paycheck amount|.
C7_SplitsGetAbsoluteAmounts ==
  splitReturned =>
    LET absoluteTotal == SumSeq(MapSeq(LAMBDA split : Abs(split.amount), FixedSplits))
        absolutePaycheck == Abs(splitArgs.entry.amount)
        remainder == roundToCents(Max(absolutePaycheck - absoluteTotal, 0))
        hasRemainderTx == RemainderSplits # << >> /\ remainder # 0
    IN IF splitArgs.paycheck_category_id = "" \/ EligibleSplits = << >>
       THEN splitResult = << >>
       ELSE /\ Len(splitResult) = Len(FixedSplits) + (IF hasRemainderTx THEN 1 ELSE 0)
            /\ \A k \in 1..Len(FixedSplits) :
                 /\ splitResult[k].account_id = FixedSplits[k].account_id
                 /\ splitResult[k].amount = Abs(FixedSplits[k].amount)
            /\ hasRemainderTx =>
                 /\ splitResult[Len(splitResult)].account_id =
                      RemainderSplits[1].account_id
                 /\ splitResult[Len(splitResult)].amount = remainder
            /\ \A k \in 1..Len(splitResult) : splitResult[k].amount > 0
            /\ (RemainderSplits # << >> /\ absoluteTotal <= absolutePaycheck) =>
                 SumSeq(Amounts(splitResult)) = absolutePaycheck

\* a paycheck of 0.03 with a fixed split of -0.02 into acc1 and the remainder
\* into acc2 has been split into 0.02 and 0.01
C7_Witness ==
  /\ splitReturned
  /\ splitArgs.paycheck_category_id = "cat0"
  /\ splitArgs.entry.amount = 6
  /\ Len(splitArgs.splits) = 2
  /\ splitArgs.splits[1].account_id = "acc1"
  /\ splitArgs.splits[1].amount = -4
  /\ splitArgs.splits[2].account_id = "acc2"
  /\ splitArgs.splits[2].is_remainder
  /\ Amounts(splitResult) = <<4, 2>>

----------------------------------------------------------------------------
(* Properties of calculateForecast, checked under SpecForecast *)

\* the length of a calendar month, by the calendar's rule for 2001..2099
CalendarDays(id) ==
  LET year == id \div 100
      month == id % 100
  IN IF month = 2 THEN (IF year % 4 = 0 THEN 29 ELSE 28)
     ELSE IF month \in {4, 6, 9, 11} THEN 30
     ELSE 31

\* C8: calculateForecast returns exactly one ForecastPoint per calendar day of
\* the snapshot's month (28 to 31 points), in ascending day order, whatever the
\* transaction list is (empty, or with transactions dated outside the month).
C8_OnePointPerDay ==
  forecastReady =>
    /\ Len(points) = CalendarDays(snapshot.id)
    /\ Len(points) \in 28..31
    /\ \A i \in 1..Len(points) : points[i].date = snapshot.id * 100 + i

\* February 2024, with a transaction dated in March, has been forecast: 29 points
C8_Witness ==
  /\ forecastReady
  /\ snapshot.id = 202402
  /\ \E i \in 1..Len(snapshot.transactions) : snapshot.transactions[i].date = 20240301
  /\ Len(points) = 29
  /\ points[29].date = 20240229

\* cash-eligible: in the cash forecast and neither an investment nor a loan
CashEligible(id) ==
  \E i \in 1..Len(snapshot.accounts) :
    /\ snapshot.accounts[i].id = id
    /\ snapshot.accounts[i].included_in_cash_forecast
    /\ snapshot.accounts[i].type \notin {"investment", "loan"}

\* every transaction of the month is a transfer between two accounts of the snapshot
OnlyTransfers ==
  \A i \in 1..Len(snapshot.transactions) :
    /\ snapshot.transactions[i].transfer_account_id # ""
    /\ snapshot.transactions[i].account_id \in AccountIds(snapshot.accounts)
    /\ snapshot.transactions[i].transfer_account_id \in AccountIds(snapshot.accounts)

\* the magnitudes of the month's transfers dated up to a date that leave
\* (side = "account_id") or reach (side = "transfer_account_id") an account
Transferred(side, id, date) ==
  SumSeq(MapSeq(LAMBDA tx : Abs(tx.amount),
                SelectSeq(snapshot.transactions,
                          LAMBDA tx : /\ tx[side] = id
                                      /\ tx.date >= snapshot.id * 100 + 1
                                      /\ tx.date <= date)))

\* C9: a transfer of magnitude X from account A to account B changes
\* balance[A] by -X and balance[B] by +X on its date, so that when the month
\* holds only transfers every day's balance of an account is its starting
\* balance minus what has left it plus what has reached it so far; and when the
\* accounts of the transfers are cash-eligible total_cash equals its starting
\* value on every day.
C9_TransfersConserveCash ==
  (forecastReady /\ OnlyTransfers) =>
    \A i \in 1..Len(points) :
      /\ \A id \in AccountIds(snapshot.accounts) :
           points[i].balances[id] =
             startingBalance(snapshot.starting_balances, id)
               - Transferred("account_id", id, points[i].date)
               + Transferred("transfer_account_id", id, points[i].date)
      /\ (\A t \in 1..Len(snapshot.transactions) :
            /\ CashEligible(snapshot.transactions[t].account_id)
            /\ CashEligible(snapshot.transactions[t].transfer_account_id))
           => points[i].total_cash =
                cashAccountsTotal(snapshot.accounts, initialBalances(snapshot))

\* 0.10 has moved from acc2 to acc1 on the first day and 0.20 from acc1 to
\* acc2 on the last day, both accounts being cash accounts
C9_Witness ==
  /\ forecastReady
  /\ OnlyTransfers
  /\ Len(snapshot.transactions) = 2
  /\ snapshot.transactions[1].amount = 10
  /\ snapshot.transactions[2].amount = -20
  /\ CashEligible("acc1") /\ CashEligible("acc2")
  /\ points[1].balances["acc1"] = 110
  /\ points[1].balances["acc2"] = -10
  /\ points[Len(points)].balances["acc1"] = 90
  /\ points[Len(points)].balances["acc2"] = 10
  /\ points[1].total_cash = 100
  /\ points[Len(points)].total_cash = 100

\* C10: in every ForecastPoint total_cash leaves out the balance of every
\* account of type 'loan' and of type 'investment', whatever the account's
\* included_in_cash_forecast flag is: it is the sum of the balances of the
\* flagged accounts that are neither.
C10_TotalCashExcludesLoans ==
  forecastReady =>
    \A i \in 1..Len(points) :
      points[i].total_cash =
        SumSeq(MapSeq(LAMBDA acc : points[i].balances[acc.id],
                      SelectSeq(snapshot.accounts,
                                LAMBDA acc : /\ acc.included_in_cash_forecast
                                             /\ acc.type # "investment"
                                             /\ acc.type # "loan")))


----------------------------------------------------------------------------
(* Properties of calculatePayrollForMonth, checked under SpecPayroll *)

\* the result of every pay event the returned call has processed, in order
Processed == IF payrollResult.outcome = "returned" THEN payrollResult.processed ELSE << >>

\* the sum of a field over the first n processed events
RECURSIVE SumOver(_, _)
SumOver(field, n) == IF n = 0 THEN 0 ELSE SumOver(field, n - 1) + Processed[n][field]

\* a year-to-date accumulator before the n-th processed event
YtdBefore(field, n) == IF n = 1 THEN 0 ELSE Processed[n - 1].ytd[field]

K401Settings == payrollArgs.payrollSettings.k401

\* the table's employee maximum, plus the catch-up when it is enabled
AnnualMax ==
  payrollArgs.taxTables.retirement.k401_employee_max
    + (IF K401Settings.catch_up_enabled
       THEN (IF K401Settings.catch_up_amount_override # Null
             THEN K401Settings.catch_up_amount_override
             ELSE payrollArgs.taxTables.retirement.k401_catch_up_max)
       ELSE 0)

\* what a regular paycheck would contribute without the cap
Desired(n) ==
  IF K401Settings.contribution_mode = "percent"
  THEN (Processed[n].gross * K401Settings.contribution_value) \div 100
  ELSE K401Settings.contribution_value

\* C11: with 401(k) enabled and enforce_annual_max on, after every pay event
\* the year-to-date 401(k) contribution is at most the annual maximum; a
\* paycheck below the cap contributes what it desires, the paycheck whose
\* desired contribution would cross the cap contributes exactly the annual
\* maximum minus what was contributed before it, and every paycheck after the
\* cap is reached contributes 0.
C11_401kAnnualCap ==
  (payrollResult.outcome = "returned" /\ K401Settings.enabled
     /\ K401Settings.enforce_annual_max) =>
    \A n \in 1..Len(Processed) :
      LET before == YtdBefore("k401_contribution", n)
      IN /\ Processed[n].ytd.k401_contribution <= AnnualMax
         /\ Processed[n].ytd.k401_contribution = SumOver("k401_contribution", n)
         /\ Processed[n].is_bonus => Processed[n].k401_contribution = 0
         /\ (~Processed[n].is_bonus /\ before + Desired(n) <= AnnualMax) =>
              Processed[n].k401_contribution = Desired(n)
         /\ (~Processed[n].is_bonus /\ before + Desired(n) > AnnualMax) =>
              Processed[n].k401_contribution = AnnualMax - before
         /\ before = AnnualMax => Processed[n].k401_contribution = 0

\* monthly paychecks of 2600 at 50% against a maximum of 2000: 1300, then the
\* 700 that are left, then nothing
C11_Witness ==
  /\ payrollResult.outcome = "returned"
  /\ K401Settings.enabled /\ K401Settings.enforce_annual_max
  /\ AnnualMax = 2000
  /\ Len(Processed) = 3
  /\ Processed[1].k401_contribution = 1300
  /\ Processed[2].k401_contribution = 700
  /\ Processed[3].k401_contribution = 0
  /\ Len(payrollResult.paychecks) = 1
  /\ payrollResult.paychecks[1].ytd.k401_contribution = 2000

\* the sum of a field over the first n processed events that are dated in the
\* year of the month asked for
RECURSIVE SumOfYear(_, _)
SumOfYear(field, n) ==
  IF n = 0 THEN 0
  ELSE SumOfYear(field, n - 1)
         + (IF Processed[n].date \div 10000 = payrollArgs.monthId \div 100
            THEN Processed[n][field] ELSE 0)

\* C12: the paychecks returned are exactly the processed events dated within
\* monthId, and the year-to-date totals of each equal the sums over the pay
\* events dated from January 1 of monthId's year up to and including it, events
\* of other years contributing nothing.
C12_YtdCoversTheYearOnly ==
  payrollResult.outcome = "returned" =>
    /\ payrollResult.paychecks =
         SelectSeq(Processed, LAMBDA r : r.date \div 100 = payrollArgs.monthId)
    /\ \A n \in 1..Len(Processed) :
         Processed[n].date \div 100 = payrollArgs.monthId =>
           /\ Processed[n].ytd.gross = SumOfYear("gross", n)
           /\ Processed[n].ytd.taxable_wages = SumOfYear("taxable_wages", n)
           /\ Processed[n].ytd.k401_contribution = SumOfYear("k401_contribution", n)
           /\ Processed[n].ytd.federal_withholding = SumOfYear("federal_withholding", n)
           /\ Processed[n].ytd.fica_withholding = SumOfYear("fica_withholding", n)
           /\ Processed[n].ytd.net = SumOfYear("net", n)

FicaSettings == payrollArgs.payrollSettings.fica

Threshold ==
  IF FicaSettings.additional_medicare_threshold_override # Null
  THEN FicaSettings.additional_medicare_threshold_override
  ELSE payrollArgs.taxTables.fica.additional_medicare_threshold[
         payrollArgs.payrollSettings.filing_status]

\* C13: with FICA included, the wages of an event charged additional Medicare
\* are max(0, ytdBefore + gross - threshold) - max(0, ytdBefore - threshold),
\* where the year-to-date Medicare wages are the gross of the events so far;
\* so after any sequence of events what has been withheld is the additional
\* rate on max(0, ytd Medicare wages - threshold): no wage is charged twice.
C13_AdditionalMedicareIsMarginal ==
  (payrollResult.outcome = "returned" /\ FicaSettings.include_fica) =>
    \A n \in 1..Len(Processed) :
      LET before == YtdBefore("medicare_wages", n)
          rate == payrollArgs.taxTables.fica.additional_medicare_rate
      IN /\ Processed[n].ytd.medicare_wages = SumOver("gross", n)
         /\ Processed[n].additional_medicare_withholding * 100 =
              rate * (Max(0, before + Processed[n].gross - Threshold)
                        - Max(0, before - Threshold))
         /\ SumOver("additional_medicare_withholding", n) * 100 =
              rate * Max(0, Processed[n].ytd.medicare_wages - Threshold)

\* monthly paychecks of 2600 against a threshold of 5000: nothing in January,
\* 200 of February's wages and all of March's are charged (1%: 2 and 26)
C13_Witness ==
  /\ payrollResult.outcome = "returned"
  /\ FicaSettings.include_fica
  /\ Threshold = 5000
  /\ Len(Processed) = 3
  /\ Processed[1].additional_medicare_withholding = 0
  /\ Processed[2].additional_medicare_withholding = 2
  /\ Processed[3].additional_medicare_withholding = 26
  /\ Processed[3].ytd.medicare_wages = 7800

SsWageBase ==
  IF FicaSettings.ss_wage_base_override # Null
  THEN FicaSettings.ss_wage_base_override
  ELSE payrollArgs.taxTables.fica.ss_wage_base

\* C14: with FICA included, each event's Social Security withholding is
\* min(gross, max(0, ssWageBase - SS wages accumulated before it)) x ssRate, the
\* wages taxed so far never exceed ssWageBase, and the reported ytd.ss_wages is
\* the total of the wages that were taxed.
C14_SsWagesAreTheTaxedWages ==
  (payrollResult.outcome = "returned" /\ FicaSettings.include_fica) =>
    \A n \in 1..Len(Processed) :
      LET rate == payrollArgs.taxTables.fica.ss_rate
      IN /\ Processed[n].ss_withholding * 100 =
              rate * Min(Processed[n].gross,
                         Max(0, SsWageBase - YtdBefore("ss_wages", n)))
         /\ SumOver("ss_withholding", n) * 100 <= rate * SsWageBase
         /\ SumOver("ss_withholding", n) * 100 = rate * Processed[n].ytd.ss_wages

\* the table is one validateTaxTableSet rejects
DefectiveTable ==
  \/ IsUndefined(payrollArgs.taxTables.retirement)
  \/ \E status \in FilingStatuses :
       payrollArgs.taxTables.federal_income_tax_brackets[status] = << >>

\* C17: when the tax table given to calculatePayrollForMonth lacks a required
\* field or has an empty bracket array, the call signals a fault or at least
\* returns no paycheck figures.
C17_TableFaultsAreReported ==
  (payrollResult.outcome # "" /\ DefectiveTable) =>
    \/ payrollResult.outcome # "returned"
    \/ payrollResult.paychecks = << >>


----------------------------------------------------------------------------
(* Properties of the federal withholding functions, checked under
   SpecWithholding *)

\* the slices of 100 of an income, from the bottom up, that lie in a bracket
SlicesIn(income, bracket) ==
  { k \in 0..((income \div 100) - 1) :
      /\ bracket.lowerBound <= 100 * k
      /\ (bracket.upperBound = Null \/ 100 * k < bracket.upperBound) }

\* marginal-bracket tax: every slice of 100 of the income is taxed at the rate
\* of the bracket it lies in
MarginalTax(income, brackets) ==
  SumSeq([i \in 1..Len(brackets) |->
            brackets[i].rate * Cardinality(SlicesIn(income, brackets[i]))])

\* the example of C15: brackets {0-10000 at 10%, 10000+ at 20%}, income 15000
IsExampleCall ==
  /\ taxResult.outcome = "returned"
  /\ taxArgs.taxableIncome = 15000
  /\ taxArgs.brackets = <<Bracket(0, 10000, 10), Bracket(10000, Null, 20)>>

\* C15 as stated: calculateAnnualTax is the marginal-bracket sum, and brackets
\* {0-10000 at 10%, 10000+ at 20%} with income 15000 give 1500.
C15_ExampleGives1500 ==
  taxResult.outcome = "returned" =>
    /\ taxResult.value = MarginalTax(taxArgs.taxableIncome, taxArgs.brackets)
    /\ IsExampleCall => taxResult.value = 1500

\* C15: for ordered contiguous brackets with an unbounded top bracket and every
\* taxable income, calculateAnnualTax is the sum over the brackets of rate x
\* (the portion of the income inside the bracket), which is what taxing each
\* slice of the income at the rate of its own bracket gives; brackets
\* {0-10000 at 10%, 10000+ at 20%} and income 15000 give
\* 10000 x 10% + 5000 x 20% = 2000, and an income <= 0 gives 0.
C15_MarginalBracketTax ==
  taxResult.outcome = "returned" =>
    /\ taxResult.value = MarginalTax(taxArgs.taxableIncome, taxArgs.brackets)
    /\ taxArgs.taxableIncome <= 0 => taxResult.value = 0
    /\ IsExampleCall => taxResult.value = 2000

\* the example has been computed, the income reaching into the second bracket
C15_Witness ==
  /\ IsExampleCall
  /\ taxableAtBracket(taxArgs.taxableIncome, taxArgs.brackets[2]) = 5000
  /\ taxResult.value = 2000

\* C16: calculateFederalWithholding returns
\* max(0, max(0, annualTax - credit) / periods + extra withholding), where the
\* annual taxable income is
\* max(0, wages x periods + other income - (standard deduction + deductions))
\* and the credit is the dependent-credit override whenever one is given
\* (0 included), otherwise dependents_count x the per-dependent credit; the
\* result is never negative.
C16_FederalWithholdingFormula ==
  withholdingResult.outcome = "returned" =>
    LET a == withholdingArgs
        taxableIncome ==
          Max(0, a.taxableWagesPerPaycheck * a.payPeriodsPerYear + a.otherIncomeAnnual
                   - (a.standardDeduction + a.deductionsAnnual))
        annualTax == MarginalTax(taxableIncome, a.brackets)
        given == IF a.dependentCreditOverride # Null THEN a.dependentCreditOverride
                 ELSE a.dependentsCount * a.dependentCredit
        afterCredits == Max(0, annualTax - given)
    IN /\ afterCredits % a.payPeriodsPerYear = 0
       /\ withholdingResult.value =
            Max(0, afterCredits \div a.payPeriodsPerYear + a.extraWithholdingPerPaycheck)
       /\ withholdingResult.value >= 0

\* an override of 0 has been given for two dependents: no credit is taken
\* from the annual tax of 480, and 40 + 10 is withheld per paycheck
C16_Witness ==
  /\ withholdingResult.outcome = "returned"
  /\ withholdingArgs.dependentCreditOverride = 0
  /\ withholdingArgs.dependentsCount = 2
  /\ withholdingArgs.taxableWagesPerPaycheck = 600
  /\ withholdingArgs.payPeriodsPerYear = 12
  /\ withholdingArgs.deductionsAnnual = 0
  /\ withholdingArgs.otherIncomeAnnual = 0
  /\ withholdingArgs.brackets = <<Bracket(0, Null, 10)>>
  /\ withholdingArgs.extraWithholdingPerPaycheck = 10
  /\ withholdingResult.value = 50


----------------------------------------------------------------------------
(* Properties of the schedules, checked under SpecSchedule *)

ScheduleReturned(cadences) ==
  /\ scheduleResult.outcome = "returned"
  /\ scheduleArgs.cadence \in cadences

\* the first day of the month of the call and the day before the first day of
\* the next month, as dates and as day numbers
FirstOfMonth == scheduleArgs.monthId * 100 + 1
FirstDayNumber == parseDate(FirstOfMonth)
LastDayNumber ==
  LET year == scheduleArgs.monthId \div 100
      month == scheduleArgs.monthId % 100
  IN (IF month = 12 THEN parseDate((year + 1) * 10000 + 101)
      ELSE parseDate(year * 10000 + (month + 1) * 100 + 1)) - 1
LastOfMonth == formatDate(LastDayNumber)

\* the anchor the computation starts from: a recurring item without an anchor
\* date is anchored on the first of the month
EffectiveAnchor ==
  IF scheduleArgs.anchor_date # 0 THEN scheduleArgs.anchor_date ELSE FirstOfMonth

\* C18: for every month and every anchor date, the semimonthly schedule is
\* exactly two dates, the 15th and the last calendar day of the month, in that
\* order.
C18_SemimonthlyIs15thAndLast ==
  ScheduleReturned({"semimonthly"}) =>
    scheduleResult.dates = <<scheduleArgs.monthId * 100 + 15, LastOfMonth>>

\* the semimonthly paycheck dates of February 2024, anchored in November 2023
C18_Witness ==
  /\ ScheduleReturned({"semimonthly"})
  /\ scheduleResult.by = "getScheduleDates"
  /\ scheduleArgs.monthId = 202402
  /\ scheduleArgs.anchor_date = 20231129
  /\ scheduleResult.dates = <<20240215, 20240229>>

\* C19: the monthly cadence of the generator (the paycheck schedule and the
\* recurring items) gives exactly one date and it lies inside the month; for a
\* recurring item a numeric day_rule (bare or 'day:N') is clamped
\* to [1, daysInMonth], 'last' gives the last calendar day, and a rule that is
\* absent or not a number falls back to the day-of-month of the anchor date
\* (itself kept inside the month).
C19_MonthlyDateInsideMonth ==
  ScheduleReturned({"monthly"}) =>
    LET dates == scheduleResult.dates
        rule == scheduleArgs.day_rule
        daysInMonth == IsoDay(LastOfMonth)
    IN /\ Len(dates) = 1
       /\ scheduleResult.by \in {"getScheduleDates", "generateMonthTransactions"} =>
            FirstOfMonth <= dates[1] /\ dates[1] <= LastOfMonth
       /\ scheduleResult.by = "generateMonthTransactions" =>
            /\ rule.kind \in {"day", "num"} =>
                 IsoDay(dates[1]) = (IF rule.n < 1 THEN 1
                                     ELSE IF rule.n > daysInMonth THEN daysInMonth
                                     ELSE rule.n)
            /\ rule.kind = "last" => dates[1] = LastOfMonth
            /\ rule.kind = "nan" =>
                 IsoDay(dates[1]) = Min(IsoDay(EffectiveAnchor), daysInMonth)

\* a recurring item with day_rule '45' in February 2024 falls on the 29th
C19_Witness ==
  /\ ScheduleReturned({"monthly"})
  /\ scheduleResult.by = "generateMonthTransactions"
  /\ scheduleArgs.monthId = 202402
  /\ scheduleArgs.day_rule = DayRule("num", 45)
  /\ scheduleResult.dates = <<20240229>>

\* the paycheck schedule was given the empty string for an anchor
NoAnchor ==
  /\ scheduleArgs.anchor_date = 0
  /\ scheduleResult.by # "generateMonthTransactions"

\* the days of the month that are a whole number of intervals after the
\* anchor; there is none without an anchor
StepsFromAnchor(intervalDays) ==
  IF NoAnchor THEN {}
  ELSE { d \in FirstDayNumber..LastDayNumber :
           /\ d >= parseDate(EffectiveAnchor)
           /\ (d - parseDate(EffectiveAnchor)) % intervalDays = 0 }

\* C20: for the weekly and biweekly cadences the dates of a month are exactly
\* the dates anchor + k x interval (interval 7 or 14 days, k >= 0) between the
\* first and the last day of the month, in ascending order, also when the
\* anchor lies in an earlier month or year; the computation ends for every
\* anchor.
C20_IntervalDatesFromAnchor ==
  ScheduleReturned({"weekly", "biweekly"}) =>
    LET dates == scheduleResult.dates
        steps == StepsFromAnchor(IF scheduleArgs.cadence = "weekly" THEN 7 ELSE 14)
    IN /\ Len(dates) = Cardinality(steps)
       /\ \A i \in 1..Len(dates) : parseDate(dates[i]) \in steps
       /\ \A i, j \in 1..Len(dates) : i < j => dates[i] < dates[j]

\* the weekly dates of January 2024 for an anchor of 29 November 2023
C20_Witness ==
  /\ ScheduleReturned({"weekly"})
  /\ scheduleArgs.monthId = 202401
  /\ scheduleArgs.anchor_date = 20231129
  /\ scheduleResult.dates = <<20240103, 20240110, 20240117, 20240124, 20240131>>


\* C28: for every month, schedule and anchor date, getPayDatesForMonth of the
\* payroll engine returns the same ordered list of dates as getScheduleDates of
\* the generator.
C28_EngineAndGeneratorAgreeOnDates ==
  (scheduleResult.outcome = "returned" /\ scheduleResult.by = "getPayDatesForMonth") =>
    scheduleResult.dates =
      getScheduleDates(scheduleArgs.monthId, scheduleArgs.cadence,
                       scheduleArgs.anchor_date)


----------------------------------------------------------------------------
(* Properties of generateMonthTransactions, checked under SpecGenerate *)

RecurringGenerated ==
  SelectSeq(generatedTransactions, LAMBDA tx : tx.source_item_id.kind = "recurring")

\* the items that are enabled and have an account and a category
Expandable ==
  { item \in Range(recurring_items) :
      item.enabled /\ item.account_id # "" /\ item.category_id # "" }

\* the variable override of the month for the item if there is one, else the
\* item's default amount
ConfiguredAmount(item) ==
  IF \E i \in 1..Len(monthSetup.variable_overrides) :
       monthSetup.variable_overrides[i].item_id = item.id
  THEN (CHOOSE o \in Range(monthSetup.variable_overrides) : o.item_id = item.id).amount
  ELSE item.default_amount

\* C24: generateMonthTransactions emits recurring transactions only for the
\* enabled items that have an account and a category, exactly one per schedule
\* date of the item, with source 'generated', source_item_id
\* 'recurring:<item_id>:<date>', and an amount of the magnitude of the month's
\* variable override if there is one, else of default_amount, positive for an
\* income item and negative for every other type.
C24_RecurringExpansion ==
  JustGenerated =>
    /\ \A tx \in Range(RecurringGenerated) :
         \E item \in Expandable :
           /\ tx.source_item_id = Key("recurring", item.id, tx.date)
           /\ tx.date \in Range(ItemDates(monthId, item))
           /\ tx.source = "generated"
           /\ tx.account_id = item.account_id
           /\ Abs(tx.amount) = Abs(ConfiguredAmount(item))
           /\ IF item.type = "income" THEN tx.amount >= 0 ELSE tx.amount <= 0
    /\ \A item \in Expandable :
         \A date \in Range(ItemDates(monthId, item)) :
           Cardinality({ i \in 1..Len(RecurringGenerated) :
                           RecurringGenerated[i].source_item_id
                             = Key("recurring", item.id, date) }) = 1

\* an expense entered as +12 and overridden to 9 for the month is generated
\* as -9 on the first of the month
C24_Witness ==
  /\ JustGenerated
  /\ Len(recurring_items) = 1
  /\ recurring_items[1].type = "expense"
  /\ recurring_items[1].default_amount = 12
  /\ monthSetup.variable_overrides # << >>
  /\ Len(RecurringGenerated) = 1
  /\ RecurringGenerated[1].amount = -9
  /\ RecurringGenerated[1].source_item_id = Key("recurring", "rent", 20240201)

PaycheckGenerated ==
  SelectSeq(generatedTransactions,
            LAMBDA tx : tx.source_item_id.kind \in {"paycheck", "bonus"})

\* the cached estimates if there are any, else one entry of the default amount
\* per schedule date
BaseEntries ==
  IF monthSetup.paycheck_estimates # << >> THEN monthSetup.paycheck_estimates
  ELSE LET dates == getScheduleDates(monthId, monthSetup.paycheck_schedule,
                                     monthSetup.paycheck_anchor_date)
       IN [i \in 1..Len(dates) |->
             PaycheckEntry(NoId, dates[i], monthSetup.paycheck_default_amount, FALSE)]

\* the amount of an entry once the override with its key, if any, is applied
OverriddenAmount(entry) ==
  LET same == { o \in Range(monthSetup.paycheck_overrides) :
                  o.date = entry.date /\ o.is_bonus = entry.is_bonus }
  IN IF same = {} THEN entry.amount ELSE (CHOOSE o \in same : TRUE).amount

\* C26: the entries that produce paycheck transactions are the cached
\* paycheck_estimates when that list is not empty, otherwise one entry per
\* schedule date with paycheck_default_amount; an override only replaces the
\* fields of the entry with its (date, bonus-flag) key; entries of amount 0
\* produce no transaction.
C26_PaycheckEntriesAreEstimatesOrSchedule ==
  JustGenerated =>
    { <<tx.date, tx.source_item_id.kind = "bonus">> : tx \in Range(PaycheckGenerated) }
      = { <<entry.date, entry.is_bonus>> :
            entry \in { e \in Range(BaseEntries) : OverriddenAmount(e) # 0 } }

\* C29: immediately after any generation run, with the setup and the
\* recurring items unchanged, a further run in mode 'missing' appends no
\* transaction.
C29_MissingIsAFixpoint ==
  [][(lastOp \in Modes /\ lastOp' = "missing" /\ runs' = runs + 1)
       => transactions' = transactions]_vars

\* a run in mode 'missing' has followed a run that generated transactions,
\* and has left the list as it was
C29_Witness ==
  /\ lastOp = "missing"
  /\ prevOp \in Modes
  /\ runs = 2
  /\ generatedTransactions # << >>
  /\ transactions = existingTransactions
  /\ Len(transactions) >= 3


----------------------------------------------------------------------------
(* Properties of the deposit splits, checked under SpecSetup *)

RemainderRows == {i \in 1..Len(splits) : splits[i].is_remainder}

\* C30: after normalizePaycheckSplits, and after any sequence of the page's
\* split operations (setSplitType, handleAddSplit, handleRemoveSplit, amount
\* and account edits) from a normalised list, at most one deposit split is the
\* remainder split, and its amount is 0.
C30_AtMostOneRemainderSplit ==
  /\ Cardinality(RemainderRows) <= 1
  /\ \A i \in RemainderRows : splits[i].amount = 0

\* the remainder has been moved from the first split to the second, and the
\* first split has been given an amount
C30_Witness ==
  /\ edits >= 2
  /\ Len(splits) = 2
  /\ RemainderRows = {2}
  /\ splits[1].amount # 0


----------------------------------------------------------------------------
(* Properties of the running balances of calculateForecast, checked under
   SpecForecast *)

\* the transactions of the snapshot dated in its month on or before a date
UpTo(date) ==
  SelectSeq(snapshot.transactions,
            LAMBDA tx : tx.date >= snapshot.id * 100 + 1 /\ tx.date <= date)

\* a transfer is a transaction with a destination account
IsTransfer(tx) == tx.transfer_account_id # ""

\* the sum of f(tx) over the transactions of a list that satisfy a condition
\* given as a set of transactions
Total(txs, amountOf) ==
  SumSeq([i \in 1..Len(txs) |-> amountOf[txs[i]]])

\* the balance of an account on a date, from the transactions of a list: the
\* starting balance (0 if absent), plus the signed amounts of the account's
\* transactions that are not transfers, minus the magnitudes of the transfers
\* out of it, plus those of the transfers into it
BalanceFrom(txs, id) ==
  startingBalance(snapshot.starting_balances, id)
    + Total(txs, [tx \in Range(txs) |->
                    IF ~IsTransfer(tx) /\ tx.account_id = id THEN tx.amount ELSE 0])
    - Total(txs, [tx \in Range(txs) |->
                    IF IsTransfer(tx) /\ tx.account_id = id THEN Abs(tx.amount) ELSE 0])
    + Total(txs, [tx \in Range(txs) |->
                    IF IsTransfer(tx) /\ tx.transfer_account_id = id
                    THEN Abs(tx.amount) ELSE 0])

\* the transaction names only accounts of the snapshot
KnownAccounts(tx) ==
  /\ tx.account_id \in AccountIds(snapshot.accounts)
  /\ IsTransfer(tx) => tx.transfer_account_id \in AccountIds(snapshot.accounts)

\* C25: a transaction that references an account the snapshot does not have
\* is a no-op: all daily points are returned, no balance entry is created for
\* the unknown account, and every known account's balance (hence total_cash)
\* is what the transactions between known accounts alone make it, for ordinary
\* transactions and for transfers with an unknown source or destination.
C25_UnknownAccountIsNoOp ==
  forecastReady =>
    /\ Len(points) = CalendarDays(snapshot.id)
    /\ \A i \in 1..Len(points) :
         /\ DOMAIN points[i].balances = AccountIds(snapshot.accounts)
         /\ \A id \in AccountIds(snapshot.accounts) :
              points[i].balances[id] =
                BalanceFrom(SelectSeq(UpTo(points[i].date), KnownAccounts), id)

\* C27: for every known account and every day d of the month, the balance in
\* day d's point is the starting balance (0 if absent) plus the signed amounts
\* of the account's transactions that are not transfers, dated in the month on
\* or before d, adjusted by the transfers dated on or before d; transactions
\* dated outside the month affect no point, and the point of a day is not
\* changed by the transactions of later days.
C27_RunningBalance ==
  forecastReady =>
    \A i \in 1..Len(points) :
      \A id \in AccountIds(snapshot.accounts) :
        points[i].balances[id] = BalanceFrom(UpTo(points[i].date), id)

\* an expense of 0.30 on the first day, a transfer of 0.20 out on the last
\* day: acc1 goes from 1.00 to 0.70 on the first day and to 0.50 on the last
C27_Witness ==
  /\ forecastReady
  /\ Len(snapshot.transactions) = 2
  /\ snapshot.transactions[1].amount = -30
  /\ snapshot.transactions[2].amount = -20
  /\ points[1].balances["acc1"] = 70
  /\ points[Len(points) - 1].balances["acc1"] = 70
  /\ points[Len(points)].balances["acc1"] = 50
  /\ points[Len(points)].balances["acc2"] = 20

----------------------------------------------------------------------------
(* Gain/Loss page (src/pages/GainLoss.tsx) *)

\* a month snapshot: the fields the Gain/Loss page and the writers of the
\* month store use
Snapshot(id, starting_balances, txs, month_setup, updated_at) ==
  [id |-> id, starting_balances |-> starting_balances, transactions |-> txs,
   month_setup |-> month_setup, updated_at |-> updated_at]

StartingBalance(account_id, amount) == [account_id |-> account_id, amount |-> amount]

\* storage.getMonth: request.result || null
getMonth(id) == IF id \in DOMAIN monthStore THEN monthStore[id] ELSE UndefinedSnapshot

\* GainLoss: getPreviousMonthId
getPreviousMonthId(month) ==
  IF month % 100 = 1 THEN (month \div 100 - 1) * 100 + 12 ELSE month - 1

\* GainLoss: buildMonthRange, as the set of its months
buildMonthRange(startId, endId) ==
  IF startId = 0 \/ endId = 0 THEN {}
  ELSE {m \in startId..endId : m % 100 \in 1..12}

\* `${year}-01` of the month
JanuaryOf(month) == (month \div 100) * 100 + 1

\* settings.accounts of the Gain/Loss page
GainLossAccounts ==
  <<Account("acc1", "checking", TRUE), Account("inv1", "investment", TRUE),
    Account("loan1", "loan", TRUE), Account("acc3", "savings", FALSE)>>

\* GainLoss: isAllZeroBalances
isAllZeroBalances(balances) ==
  IF Len(balances) = 0 THEN TRUE
  ELSE \A i \in 1..Len(balances) : balances[i].amount = 0

\* GainLoss: getHistoryBalances
getHistoryBalances(month) ==
  IF month \in DOMAIN gain_loss_history THEN gain_loss_history[month] ELSE << >>

\* GainLoss: resolveBalances
resolveBalances(month, snap) ==
  LET historyBalances == getHistoryBalances(month) IN
  IF snap = UndefinedSnapshot THEN historyBalances
  ELSE IF ~isAllZeroBalances(snap.starting_balances) THEN snap.starting_balances
  ELSE IF Len(historyBalances) # 0 THEN historyBalances
  ELSE snap.starting_balances

\* yearSnapshots[monthId]
yearSnapshot(month) ==
  IF month \in DOMAIN yearSnapshots THEN yearSnapshots[month] ELSE UndefinedSnapshot

\* GainLoss: getBalancesForMonth
getBalancesForMonth(month) ==
  IF month = 0 THEN << >>
  ELSE IF currentSnapshot.id = month THEN resolveBalances(month, currentSnapshot)
  ELSE IF yearSnapshot(month) # UndefinedSnapshot
    THEN resolveBalances(month, yearSnapshot(month))
  ELSE resolveBalances(month, UndefinedSnapshot)

\* new Map(balances.map(b => [b.account_id, b.amount])).get(id) ?? 0: the last
\* entry of an account wins
mapGet(balances, id) ==
  LET at == {i \in 1..Len(balances) : balances[i].account_id = id} IN
  IF at = {} THEN 0
  ELSE balances[CHOOSE i \in at : \A j \in at : j <= i].amount

\* mutant of isCash: every account that is not an investment is cash
isCash_IgnoresFlag(acc) == acc.type # "investment" /\ acc.type # "loan"

\* GainLoss: isCash and isInvestment of ytdTotals and momTotals
isCash(acc) ==
  acc.included_in_cash_forecast /\ acc.type # "investment" /\ acc.type # "loan"

isInvestment(acc) == acc.type = "investment"

\* the loop of ytdTotals and momTotals over settings.accounts, loans filtered out
RECURSIVE deltaTotals(_, _, _)
deltaTotals(accs, currentBalances, baselineBalances) ==
  IF accs = << >> THEN [cash |-> 0, investments |-> 0, cashAndInvestments |-> 0]
  ELSE
    LET acc == accs[Len(accs)]
        rest == deltaTotals(SubSeq(accs, 1, Len(accs) - 1), currentBalances,
                            baselineBalances)
        delta == mapGet(currentBalances, acc.id) - mapGet(baselineBalances, acc.id)
    IN IF acc.type = "loan" THEN rest
       ELSE [cash |-> rest.cash + (IF isCash(acc) THEN delta ELSE 0),
             investments |-> rest.investments + (IF isInvestment(acc) THEN delta ELSE 0),
             cashAndInvestments |->
               rest.cashAndInvestments
                 + (IF isCash(acc) \/ isInvestment(acc) THEN delta ELSE 0)]

ZeroTotals == [cash |-> 0, investments |-> 0, cashAndInvestments |-> 0]

\* GainLoss: ytdTotals
ytdTotals ==
  IF currentSnapshot = UndefinedSnapshot THEN ZeroTotals
  ELSE deltaTotals(GainLossAccounts,
                   getBalancesForMonth(currentSnapshot.id),
                   resolveBalances(JanuaryOf(currentSnapshot.id), ytdBaselineSnapshot))

\* GainLoss: momTotals
momTotals ==
  IF currentSnapshot = UndefinedSnapshot THEN ZeroTotals
  ELSE deltaTotals(GainLossAccounts,
                   getBalancesForMonth(currentSnapshot.id),
                   getBalancesForMonth(getPreviousMonthId(currentSnapshot.id)))

\* GainLoss: momDetailRows, the current and previous columns by account id
momDetailRows ==
  IF momDetailMonthId = 0 THEN << >>
  ELSE
    LET currentBalances == getBalancesForMonth(momDetailMonthId)
        prevBalances == getBalancesForMonth(getPreviousMonthId(momDetailMonthId))
    IN [i \in {k \in 1..Len(GainLossAccounts) : GainLossAccounts[k].type # "loan"} |->
          [id |-> GainLossAccounts[i].id,
           current |-> mapGet(currentBalances, GainLossAccounts[i].id),
           previous |-> mapGet(prevBalances, GainLossAccounts[i].id),
           delta |-> mapGet(currentBalances, GainLossAccounts[i].id)
                       - mapGet(prevBalances, GainLossAccounts[i].id)]]

\* the months the page is opened on, and the months a snapshot or a history
\* entry is stored for
GainLossCurrentMonths == {202401, 202406}
GainLossMonths == {202311, 202312, 202401, 202405, 202406}

\* starting balances of a stored month, in whole dollars
ZeroBalances ==
  <<StartingBalance("acc1", 0), StartingBalance("inv1", 0),
    StartingBalance("loan1", 0), StartingBalance("acc3", 0)>>
JanuaryBalances ==
  <<StartingBalance("acc1", 5000), StartingBalance("inv1", 1000),
    StartingBalance("loan1", -900), StartingBalance("acc3", 50)>>
JuneBalances ==
  <<StartingBalance("acc1", 5800), StartingBalance("inv1", 900),
    StartingBalance("loan1", -800), StartingBalance("acc3", 70)>>
\* balances of a "Historical Balances" entry: the accounts that are not loans
HistoryBalances ==
  <<StartingBalance("acc1", 4000), StartingBalance("inv1", 700)>>

\* what the store holds for a month that is not open: nothing, a snapshot that
\* was never given balances, or a snapshot with balances
StoredChoices(month) ==
  IF month \in {202401, 202405} THEN {<<"none">>, ZeroBalances, JanuaryBalances}
  ELSE {<<"none">>, JanuaryBalances}

HistoryMonths == {202312, 202401, 202405}

InitGainLoss ==
  /\ \E id \in GainLossCurrentMonths, balances \in {ZeroBalances, JuneBalances} :
       /\ currentSnapshot = Snapshot(id, balances, {}, 0, 0)
       /\ \E stored \in [GainLossMonths \ {id} -> UNION {StoredChoices(m) : m \in GainLossMonths}] :
            /\ \A m \in DOMAIN stored : stored[m] \in StoredChoices(m)
            /\ monthStore =
                 [m \in {id} \cup {k \in DOMAIN stored : stored[k] # <<"none">>} |->
                    IF m = id THEN currentSnapshot
                    ELSE Snapshot(m, stored[m], {}, 0, 0)]
       /\ momDetailMonthId = id
  /\ \E entered \in SUBSET HistoryMonths :
       gain_loss_history = [m \in entered |-> HistoryBalances]
  /\ ytdBaselineSnapshot = UndefinedSnapshot
  /\ yearSnapshots = << >>
  /\ NoPage /\ NoSplitCall /\ NoForecast /\ NoPayrollCall /\ NoTaxCall /\ NoScheduleCall
  /\ NoSync

\* the effect that loads the January snapshot: storage.getMonth(baselineId)
\* .then(setYtdBaselineSnapshot)
loadYtdBaseline ==
  /\ currentSnapshot # UndefinedSnapshot
  /\ ytdBaselineSnapshot # getMonth(JanuaryOf(currentSnapshot.id))
  /\ ytdBaselineSnapshot' = getMonth(JanuaryOf(currentSnapshot.id))
  /\ UNCHANGED <<gain_loss_history, yearSnapshots, momDetailMonthId>>
  /\ UNCHANGED <<pageVars, splitVars, forecastVars, payrollVars, taxVars,
                 scheduleVars, storeVars, syncVars>>

\* the months of the effect that loads yearSnapshots
yearMonthIds ==
  buildMonthRange(JanuaryOf(currentSnapshot.id), currentSnapshot.id)
    \cup {getPreviousMonthId(JanuaryOf(currentSnapshot.id))}

\* the effect that loads yearSnapshots: Promise.all(...).then(setYearSnapshots)
loadYearSnapshots ==
  /\ currentSnapshot # UndefinedSnapshot
  /\ yearSnapshots = << >>
  /\ yearSnapshots' = [m \in yearMonthIds |-> getMonth(m)]
  /\ UNCHANGED <<gain_loss_history, ytdBaselineSnapshot, momDetailMonthId>>
  /\ UNCHANGED <<pageVars, splitVars, forecastVars, payrollVars, taxVars,
                 scheduleVars, storeVars, syncVars>>

\* Month Detail: onChange of the month input
setMomDetailMonthId ==
  /\ \E month \in GainLossMonths \cup {0} :
       /\ month # momDetailMonthId
       /\ momDetailMonthId' = month
  /\ UNCHANGED <<gain_loss_history, ytdBaselineSnapshot, yearSnapshots>>
  /\ UNCHANGED <<pageVars, splitVars, forecastVars, payrollVars, taxVars,
                 scheduleVars, storeVars, syncVars>>

NextGainLoss ==
  \/ loadYtdBaseline
  \/ loadYearSnapshots
  \/ setMomDetailMonthId

SpecGainLoss == InitGainLoss /\ [][NextGainLoss]_vars

----------------------------------------------------------------------------
(* Gain/Loss page: claims *)

\* the months the page resolves balances for once yearSnapshots is loaded: the
\* months of the year up to the open one, the month of Month Detail, and the
\* month before each
ResolvedMonths ==
  LET shown == buildMonthRange(JanuaryOf(currentSnapshot.id), currentSnapshot.id)
                 \cup ({momDetailMonthId} \ {0})
  IN shown \cup {getPreviousMonthId(m) : m \in shown}

HasBalances(balances) == \E i \in 1..Len(balances) : balances[i].amount # 0

\* the balances the policy names for a month
PolicyBalances(month) ==
  IF getMonth(month) # UndefinedSnapshot /\ HasBalances(getMonth(month).starting_balances)
    THEN getMonth(month).starting_balances
  ELSE IF month \in DOMAIN gain_loss_history THEN gain_loss_history[month]
  ELSE << >>

SameBalances(a, b) ==
  \A i \in 1..Len(GainLossAccounts) :
    mapGet(a, GainLossAccounts[i].id) = mapGet(b, GainLossAccounts[i].id)

\* C21: for every month the Gain/Loss page resolves balances for, the balances
\* used are the starting_balances of the month's snapshot if the snapshot exists
\* and they are not all zero, otherwise the historical-balances entry of the
\* month if there is one, otherwise all zero.
C21_BalancesResolvedByPolicy ==
  yearSnapshots # << >> =>
    \A m \in ResolvedMonths : SameBalances(getBalancesForMonth(m), PolicyBalances(m))

\* the accounts of a classification
CashAccounts ==
  {GainLossAccounts[i] : i \in {k \in 1..Len(GainLossAccounts) :
     /\ GainLossAccounts[k].included_in_cash_forecast
     /\ GainLossAccounts[k].type \notin {"investment", "loan"}}}

InvestmentAccounts ==
  {GainLossAccounts[i] : i \in {k \in 1..Len(GainLossAccounts) :
     GainLossAccounts[k].type = "investment"}}

\* the sum over a set of accounts of current balance - baseline balance
RECURSIVE DeltaOver(_, _, _)
DeltaOver(accs, current, baseline) ==
  IF accs = {} THEN 0
  ELSE LET acc == CHOOSE a \in accs : TRUE IN
       mapGet(current, acc.id) - mapGet(baseline, acc.id)
         + DeltaOver(accs \ {acc}, current, baseline)

DeltasAre(totals, current, baseline) ==
  /\ totals.cash = DeltaOver(CashAccounts, current, baseline)
  /\ totals.investments = DeltaOver(InvestmentAccounts, current, baseline)
  /\ totals.cashAndInvestments = totals.cash + totals.investments

\* C22: the month-over-month and the year-to-date totals are the sums over the
\* accounts of current balance - baseline balance: cash over the accounts with
\* included_in_cash_forecast whose type is neither investment nor loan,
\* investments over the accounts of type investment, loans in no total, and the
\* combined delta is the cash delta plus the investment delta.
C22_DeltasByClassification ==
  currentSnapshot # UndefinedSnapshot =>
    /\ DeltasAre(ytdTotals,
                 getBalancesForMonth(currentSnapshot.id),
                 resolveBalances(JanuaryOf(currentSnapshot.id), ytdBaselineSnapshot))
    /\ DeltasAre(momTotals,
                 getBalancesForMonth(currentSnapshot.id),
                 getBalancesForMonth(getPreviousMonthId(currentSnapshot.id)))

\* January cash 5000 and June cash 5800, no history entry used: the year-to-date
\* cash gain is 800, while the loan and the account left out of the cash
\* forecast moved as well
C22_Witness ==
  /\ currentSnapshot.id = 202406
  /\ currentSnapshot.starting_balances = JuneBalances
  /\ ytdBaselineSnapshot # UndefinedSnapshot
  /\ ytdBaselineSnapshot.starting_balances = JanuaryBalances
  /\ yearSnapshots # << >>
  /\ ytdTotals = [cash |-> 800, investments |-> -100, cashAndInvestments |-> 700]
  /\ mapGet(JuneBalances, "loan1") # mapGet(JanuaryBalances, "loan1")
  /\ mapGet(JuneBalances, "acc3") # mapGet(JanuaryBalances, "acc3")
  /\ momTotals.cash # 0

----------------------------------------------------------------------------
(* The writers of the month snapshot: handleGenerate, commitStartingBalance,
   updateSettings -> saveSnapshot -> syncMonth.  Each await is a step of its
   own; the handlers between two awaits are atomic, as on the event loop. *)

\* starting-balance commits of a behaviour
MaxWrites == 2

\* updated_at of a row another device has pushed after the local snapshot
RemoteUpdatedAt == 9

\* settings.accounts after an account was added on the Settings page
EditedAccounts ==
  <<Account("acc1", "checking", TRUE), Account("acc2", "savings", TRUE),
    Account("acc3", "savings", FALSE)>>

\* App: normalizeMonthSnapshot, on the fields of Snapshot: the starting balances
\* follow the accounts, updated_at, transactions and month_setup are kept
normalizeSnapshotFields(snap, accs) ==
  [snap EXCEPT !.starting_balances = ensureStartingBalances(snap.starting_balances, accs)]

\* storage.upsertMonth: the put request of a writer, not yet completed
PutRequest(by, snap) == [by |-> by, snapshot |-> snap]

InitSync ==
  /\ \E existing \in {{}, {0}} :
       currentSnapshot =
         Snapshot(GenerateMonth,
                  ensureStartingBalances(<<StartingBalance("acc1", 100)>>, INITIAL_ACCOUNTS),
                  existing, 0, 1)
  /\ monthStore = [m \in {GenerateMonth} |-> currentSnapshot]
  /\ cloud \in BOOLEAN
  /\ \E remote_updated_at \in {-1, 0, RemoteUpdatedAt} :
       remoteMonth =
         IF ~cloud \/ remote_updated_at = -1 THEN UndefinedSnapshot
         ELSE [currentSnapshot EXCEPT !.transactions = {}, !.updated_at = remote_updated_at]
  /\ pendingPuts = << >>
  /\ generatePc = "idle"
  /\ updatedSnapshot = UndefinedSnapshot
  /\ settingsPc = "idle"
  /\ closureSnapshot = UndefinedSnapshot
  /\ clock = 1
  /\ NoPage /\ NoSplitCall /\ NoForecast /\ NoPayrollCall /\ NoTaxCall /\ NoScheduleCall
  /\ NoGainLoss

\* Dashboard: handleGenerate up to its await: the result of
\* generateMonthTransactions (the transactions of this run added, month_setup of
\* this run), setSnapshot, and the put request of storage.upsertMonth
clickGenerate ==
  /\ generatePc = "idle"
  /\ LET updated == [currentSnapshot EXCEPT
                       !.transactions = @ \cup {clock + 1},
                       !.month_setup = clock + 1,
                       !.updated_at = clock + 1]
     IN /\ updatedSnapshot' = updated
        /\ currentSnapshot' = updated
        /\ pendingPuts' = Append(pendingPuts, PutRequest("handleGenerate", updated))
  /\ clock' = clock + 1
  /\ generatePc' = "upsertMonth"
  /\ UNCHANGED <<monthStore, remoteMonth, settingsPc, closureSnapshot, cloud>>
  /\ UNCHANGED <<pageVars, splitVars, forecastVars, payrollVars, taxVars,
                 scheduleVars, gainLossVars>>

\* storage.upsertMonth: the oldest put request succeeds and its writer resumes:
\* handleGenerate navigates, saveSnapshot goes on to syncMonth with a cloud
\* configuration and returns without one
upsertMonthSucceeds ==
  /\ pendingPuts # << >>
  /\ LET request == Head(pendingPuts) IN
       /\ monthStore' = [monthStore EXCEPT ![request.snapshot.id] = request.snapshot]
       /\ generatePc' = IF request.by = "handleGenerate" THEN "done" ELSE generatePc
       /\ settingsPc' =
            IF request.by = "saveSnapshot" THEN (IF cloud THEN "syncMonth" ELSE "done")
            ELSE IF request.by = "saveSnapshot: remote" THEN "done"
            ELSE settingsPc
  /\ pendingPuts' = Tail(pendingPuts)
  /\ UNCHANGED <<currentSnapshot, remoteMonth, updatedSnapshot, closureSnapshot,
                 clock, cloud>>
  /\ UNCHANGED <<pageVars, splitVars, forecastVars, payrollVars, taxVars,
                 scheduleVars, gainLossVars>>

\* Dashboard: commitStartingBalance
commitStartingBalance ==
  /\ clock <= MaxWrites
  /\ \E amount \in {120} :
       LET updated ==
             [currentSnapshot EXCEPT
                !.starting_balances =
                  [i \in 1..Len(@) |->
                     IF @[i].account_id = "acc1" THEN [@[i] EXCEPT !.amount = amount]
                     ELSE @[i]],
                !.updated_at = clock + 1]
       IN /\ currentSnapshot' = updated
          /\ pendingPuts' = Append(pendingPuts, PutRequest("commitStartingBalance", updated))
  /\ clock' = clock + 1
  /\ UNCHANGED <<monthStore, remoteMonth, generatePc, updatedSnapshot, settingsPc,
                 closureSnapshot, cloud>>
  /\ UNCHANGED <<pageVars, splitVars, forecastVars, payrollVars, taxVars,
                 scheduleVars, gainLossVars>>

\* App: updateSettings({accounts}) up to its first await: the call holds the
\* currentSnapshot of the render it was made in
updateSettings ==
  /\ settingsPc = "idle"
  /\ closureSnapshot' = currentSnapshot
  /\ settingsPc' = "saveSettings"
  /\ UNCHANGED <<currentSnapshot, monthStore, remoteMonth, pendingPuts, generatePc,
                 updatedSnapshot, clock, cloud>>
  /\ UNCHANGED <<pageVars, splitVars, forecastVars, payrollVars, taxVars,
                 scheduleVars, gainLossVars>>

\* App: updateSettings after storage.saveSettings and syncSettings: the
\* snapshot of the closure is normalised, set as the state and handed to
\* saveSnapshot, which requests its put
updateSettingsNormalizes ==
  /\ settingsPc = "saveSettings"
  /\ LET normalized == normalizeSnapshotFields(closureSnapshot, EditedAccounts) IN
       /\ currentSnapshot' = normalized
       /\ closureSnapshot' = normalized
       /\ pendingPuts' = Append(pendingPuts, PutRequest("saveSnapshot", normalized))
  /\ settingsPc' = "upsertMonth"
  /\ UNCHANGED <<monthStore, remoteMonth, generatePc, updatedSnapshot, clock, cloud>>
  /\ UNCHANGED <<pageVars, splitVars, forecastVars, payrollVars, taxVars,
                 scheduleVars, gainLossVars>>

\* supabase: syncMonth, the remote row missing or not newer: the snapshot is
\* pushed and null returned
syncMonthPushes ==
  /\ settingsPc = "syncMonth"
  /\ ~(remoteMonth # UndefinedSnapshot /\ remoteMonth.updated_at > closureSnapshot.updated_at)
  /\ remoteMonth' = closureSnapshot
  /\ settingsPc' = "done"
  /\ UNCHANGED <<currentSnapshot, monthStore, pendingPuts, generatePc, updatedSnapshot,
                 closureSnapshot, clock, cloud>>
  /\ UNCHANGED <<pageVars, splitVars, forecastVars, payrollVars, taxVars,
                 scheduleVars, gainLossVars>>

\* supabase: syncMonth, the remote row newer: it is returned, and saveSnapshot
\* normalises it, sets it as the state and requests its put
syncMonthReturnsRemote ==
  /\ settingsPc = "syncMonth"
  /\ remoteMonth # UndefinedSnapshot
  /\ remoteMonth.updated_at > closureSnapshot.updated_at
  /\ LET normalized == normalizeSnapshotFields(remoteMonth, EditedAccounts) IN
       /\ currentSnapshot' = normalized
       /\ closureSnapshot' = normalized
       /\ pendingPuts' = Append(pendingPuts, PutRequest("saveSnapshot: remote", normalized))
  /\ settingsPc' = "upsertMonth: remote"
  /\ UNCHANGED <<monthStore, remoteMonth, generatePc, updatedSnapshot, clock, cloud>>
  /\ UNCHANGED <<pageVars, splitVars, forecastVars, payrollVars, taxVars,
                 scheduleVars, gainLossVars>>

NextSync ==
  \/ clickGenerate
  \/ upsertMonthSucceeds
  \/ commitStartingBalance
  \/ updateSettings
  \/ updateSettingsNormalizes
  \/ syncMonthPushes
  \/ syncMonthReturnsRemote

SpecSync == InitSync /\ [][NextSync]_vars

\* C23: under every interleaving of a generation run with the other writers of
\* the month snapshot, once the run has completed the persisted snapshot holds
\* the run's transactions and month_setup, and its updated_at is not smaller
\* than the run's.
C23_GenerationOutputPersists ==
  generatePc = "done" =>
    /\ updatedSnapshot.transactions \subseteq getMonth(GenerateMonth).transactions
    /\ getMonth(GenerateMonth).month_setup = updatedSnapshot.month_setup
    /\ getMonth(GenerateMonth).updated_at >= updatedSnapshot.updated_at

====
